---- MODULE Spec2Model ----
(***************************************************************************)
(* Model of the brick_config configuration language of woeman              *)
(* (src/brick_config/config.py): the tree of Mapping / Sequence /          *)
(* LazyRange containers, lazy reference resolution with its per-scope      *)
(* "resolving" sets, instantiate() with `extends`, and ConfigMerger.       *)
(*                                                                         *)
(* Python objects live in a heap: a sequence of node records, an object    *)
(* being identified by its index (0 is None).  Every operation of the      *)
(* library is an operator that takes the heap and returns a record         *)
(* [h, v, x, m]: the heap afterwards, the value returned, the type of the  *)
(* exception raised ("" when it returns) and the exception's message kind. *)
(***************************************************************************)
EXTENDS Integers, Sequences, FiniteSets, TLC

VARIABLES heap, roots, doc, last, calls

vars == <<heap, roots, doc, last, calls>>

----------------------------------------------------------------------------
\* Token types, src/brick_config/config.py:97-124

DOT == "."

LBRACK == "["

DOLLAR == "$"

BACKTICK == "BACKTICK"

UNDERSCORE == "_"

PLUS == "+"

MINUS == "-"

STAR == "*"

SLASH == "/"

MOD == "%"

----------------------------------------------------------------------------
\* Values.  Every value has the same shape so that any two can be compared:
\* t is the Python type, i/d an integer or the fraction i/d of a float,
\* s a string, e the parts of a Reference or Expression, p its path.

Val(t, i, s, e) == [t |-> t, i |-> i, d |-> 1, s |-> s, e |-> e, p |-> <<>>]

NoneV == Val("None", 0, "", <<>>)

IntV(n) == Val("int", n, "", <<>>)

FloatV(n, den) == [t |-> "float", i |-> n, d |-> den, s |-> "", e |-> <<>>, p |-> <<>>]

StrV(x) == Val("str", 0, x, <<>>)

BoolV(b) == Val("bool", IF b THEN 1 ELSE 0, "", <<>>)

\* a Container object, by heap address
Obj(id) == Val("obj", id, "", <<>>)

\* Reference.__init__: elements = [ident]; later elements are (type, key)
Reference(type, ident) == Val("Reference", 0, type, <<StrV(ident)>>)

Elem(type, key) == Val(type, 0, "", <<key>>)

\* Reference.addElement
addElement(ref, type, key) == [ref EXCEPT !.e = Append(@, Elem(type, key))]

\* Expression.__init__
Expression(op, lhs, rhs) == Val("Expression", 0, op, <<lhs, rhs>>)

IsContainer(v) == v.t = "obj"

IsPlaceholder(v) == v.t \in {"Reference", "Expression"}

IsNumber(v) == v.t \in {"int", "float", "bool"}

\* int(x) of a number: truncation towards zero
PyInt(v) == IF v.i >= 0 THEN v.i \div v.d ELSE -((-v.i) \div v.d)

----------------------------------------------------------------------------
\* Results of operations

Ret(h, v) == [h |-> h, v |-> v, x |-> "", m |-> ""]

Raise(h, x, m) == [h |-> h, v |-> NoneV, x |-> x, m |-> m]

ConfigResolutionError == "ConfigResolutionError"

ConfigError == "ConfigError"

ConfigFormatError == "ConfigFormatError"

\* the interpreter's error for a call stack that has grown too deep
RecursionError == "RecursionError"

----------------------------------------------------------------------------
\* Containers

NoComment == "None"

EmptyMap == [k \in {} |-> NoneV]

EmptyComments == [k \in {} |-> NoComment]

\* makePath: a path is kept as the list of its suffixes, a suffix being
\* [br, s]: br tells a bracketed index from an identifier.
Suffix(s) == [br |-> FALSE, s |-> s]

IndexSuffix(n) == [br |-> TRUE, s |-> ToString(n)]

makePath(prefix, suffix) == IF prefix = <<>> THEN <<suffix>> ELSE Append(prefix, suffix)

\* a namespace: an object with the attributes attrs, each [k, v]
NamespaceOf(attrs) == Val("namespace", 0, "", attrs)

\* Config.Namespace(): the default namespace, which holds the modules sys and os
Namespace ==
  NamespaceOf(<<[k |-> "sys", v |-> Val("module", 0, "sys", <<>>)],
                [k |-> "os", v |-> Val("module", 0, "os", <<>>)]>>)

\* the kinds of Sequence that have no `data` until determine() has run
LazyKinds == {"LazyRange", "LazySequence"}

\* Container.__init__, Mapping.__init__, Sequence.__init__, LazyRange.__init__,
\* LazySequence.__init__
NewNode(kind, parent) ==
  [kind |-> kind, parent |-> parent, path |-> <<>>,
   order |-> <<>>, data |-> EmptyMap, comments |-> EmptyComments, resolving |-> {},
   items |-> <<>>, icomments |-> <<>>, has |-> kind \notin LazyKinds, rangeLimits |-> 0,
   dataItem |-> NoneV, mapping |-> 0,
   namespaces |-> IF kind = "Config" THEN <<Namespace>> ELSE <<>>]

MappingKinds == {"Mapping", "Config"}

SequenceKinds == {"Sequence", "LazyRange", "LazySequence"}

IsMapping(h, v) == v.t = "obj" /\ h[v.i].kind \in MappingKinds

IsSequence(h, v) == v.t = "obj" /\ h[v.i].kind \in SequenceKinds

Alloc(h, node) == Append(h, node)

SeqContains(s, x) == \E j \in 1..Len(s) : s[j] = x

\* Container.setPath
setPath(h, id, path) == [h EXCEPT ![id].path = path]

\* Sequence.append
append(h, id, item, comment) ==
  [h EXCEPT ![id].items = Append(@, item), ![id].icomments = Append(@, comment)]

\* a faulty variant of addMapping below: the key is appended to the order
\* whether it is there or not
addMappingAppend(h, id, key, value, comment, setting) ==
  Ret([h EXCEPT ![id].data = (key :> value) @@ @,
                ![id].order = Append(@, key),
                ![id].comments = (key :> comment) @@ @], NoneV)

\* Mapping.addMapping: data[key] is bound before the clash is detected
addMapping(h, id, key, value, comment, setting) ==
  LET h1 == [h EXCEPT ![id].data = (key :> value) @@ @] IN
  IF ~SeqContains(h[id].order, key)
  THEN Ret([h1 EXCEPT ![id].order = Append(@, key),
                      ![id].comments = (key :> comment) @@ @], NoneV)
  ELSE IF ~setting
       THEN Raise(h1, ConfigFormatError, "repeated key")
       ELSE Ret([h1 EXCEPT ![id].comments = (key :> comment) @@ @], NoneV)

\* Config.addNamespace(ns, name): name is "" for None
addNamespace(h, self, ns, name) ==
  IF name = "" THEN [h EXCEPT ![self].namespaces = Append(@, ns)]
  ELSE [h EXCEPT ![self].namespaces[1].e =
                   IF \E n \in 1..Len(@) : @[n].k = name
                   THEN [n \in 1..Len(@) |-> IF @[n].k = name THEN [k |-> name, v |-> ns] ELSE @[n]]
                   ELSE Append(@, [k |-> name, v |-> ns])]

\* Mapping.__delitem__
delitem(h, id, key) ==
  LET Other(k) == k # key
      Rest(f) == [k \in DOMAIN f \ {key} |-> f[k]]
  IN IF key \notin DOMAIN h[id].data THEN Raise(h, "AttributeError", key)
     ELSE Ret([h EXCEPT ![id].data = Rest(@),
                        ![id].order = SelectSeq(@, Other),
                        ![id].comments = Rest(@)], NoneV)

----------------------------------------------------------------------------
\* ConfigReader: the tree built from a document.  A document is given as its
\* parse tree: a scalar is a value, Map(<<KV(key, value), ...>>) is { ... },
\* Seq(<<...>>) is [ ... ] and Range(<<b>>, <<e>>) is what the tokens of
\* [b..e] come to: the sequence parsed so far and the sequence parsed for
\* the end of the range.

KV(k, v) == [k |-> k, q |-> FALSE, v |-> v, c |-> NoComment]

QKV(k, v) == [k |-> k, q |-> TRUE, v |-> v, c |-> NoComment]

Map(pairs) == Val("{", 0, "", pairs)

Seq_(elems) == Val("[", 0, "", elems)

Range(sofar, end) == Val("..", 0, "", <<Seq_(sofar), Seq_(end)>>)

\* [template | key: driver]
Comp(template, key, driver) == Val("|", 0, key, <<template, driver>>)

\* no value: a key that a document leaves out
Absent == Val("absent", 0, "", <<>>)

RECURSIVE Call(_, _)

\* ConfigReader.parseKeyValuePair, for the pair kv of the mapping `parent`
parseKeyValuePair(h, parent, kv) ==
  LET suffix == IF kv.q THEN [br |-> TRUE, s |-> kv.k] ELSE Suffix(kv.k)
      r == Call("parseValue", <<h, parent, suffix, kv.v>>)
  IN IF r.x # "" THEN r
     ELSE addMapping(r.h, parent, kv.k, r.v, kv.c, FALSE)

\* ConfigReader.parseMappingBody: the pairs from position j on
parseMappingBody(h, current, pairs, j) ==
  IF j > Len(pairs) THEN Ret(h, NoneV)
  ELSE LET r == Call("parseKeyValuePair", <<h, current, pairs[j]>>)
       IN IF r.x # "" THEN r ELSE Call("parseMappingBody", <<r.h, current, pairs, j + 1>>)

\* the element loop of ConfigReader.parseSequence
parseSequenceItems(h, rv, elems, j) ==
  IF j > Len(elems) THEN Ret(h, NoneV)
  ELSE LET r == Call("parseValue", <<h, rv, IndexSuffix(Len(h[rv].items)), elems[j]>>)
       IN IF r.x # "" THEN r
          ELSE Call("parseSequenceItems", <<append(r.h, rv, r.v, NoComment), rv, elems, j + 1>>)

\* ConfigReader.parseSequence where neither a range nor a comprehension follows
parseSequence(h, parent, suffix, ast) ==
  LET rv == Len(h) + 1
      h1 == setPath(Alloc(h, NewNode("Sequence", parent)), rv, makePath(h[parent].path, suffix))
      r  == Call("parseSequenceItems", <<h1, rv, ast.e, 1>>)
  IN IF r.x # "" THEN r ELSE Ret(r.h, Obj(rv))

\* ConfigReader.parseRange and the LazyRange built by parseSequence
parseRange(h, parent, suffix, ast) ==
  LET r1 == Call("parseSequence", <<h, parent, suffix, ast.e[1]>>)
      r2 == Call("parseSequence", <<r1.h, parent, suffix, ast.e[2]>>)
      rv == r1.h[r1.v.i]
      end == r2.h[r2.v.i]
      rangeLimits == Len(r2.h) + 1
      h3 == Alloc(r2.h, NewNode("Sequence", parent))
      h4 == append(append(h3, rangeLimits, rv.items[1], ""), rangeLimits, end.items[1], "")
      lazy == Len(h4) + 1
      h5 == Alloc(h4, [NewNode("LazyRange", parent) EXCEPT !.rangeLimits = rangeLimits])
  IN IF r1.x # "" THEN r1
     ELSE IF r2.x # "" THEN r2
     ELSE IF Len(end.items) = 0 THEN Raise(r2.h, "IndexError", "")
     ELSE IF Len(end.items) # 1 THEN Raise(h4, ConfigFormatError, "expecting single number for end of range")
     ELSE Ret(setPath(h5, lazy, makePath(h[parent].path, suffix)), Obj(lazy))

\* ConfigReader.parseListComprehension and the LazySequence built by
\* parseSequence: the template is parsed as the one element of a Sequence, the
\* specification `key: driver` into a Mapping of its own
parseListComprehension(h, parent, suffix, ast) ==
  LET r1 == Call("parseSequence", <<h, parent, suffix, Seq_(<<ast.e[1]>>)>>)
      specification == Len(r1.h) + 1
      h2 == Alloc(r1.h, NewNode("Mapping", parent))
      r2 == Call("parseKeyValuePair", <<h2, specification, KV(ast.s, ast.e[2])>>)
      lazy == Len(r2.h) + 1
      h3 == Alloc(r2.h, [NewNode("LazySequence", parent) EXCEPT
                           !.dataItem = r1.h[r1.v.i].items[1], !.mapping = specification])
  IN IF r1.x # "" THEN r1
     ELSE IF r2.x # "" THEN r2
     ELSE Ret(setPath(h3, lazy, makePath(h[parent].path, suffix)), Obj(lazy))

\* ConfigReader.parseMapping for { ... }
parseMapping(h, parent, suffix, ast) ==
  LET rv == Len(h) + 1
      h1 == setPath(Alloc(h, NewNode("Mapping", parent)), rv, makePath(h[parent].path, suffix))
      r  == Call("parseMappingBody", <<h1, rv, ast.e, 1>>)
  IN IF r.x # "" THEN r ELSE Ret(r.h, Obj(rv))

\* ConfigReader.parseValue
parseValue(h, parent, suffix, ast) ==
  IF ast.t = "{" THEN Call("parseMapping", <<h, parent, suffix, ast>>)
  ELSE IF ast.t = "[" THEN Call("parseSequence", <<h, parent, suffix, ast>>)
  ELSE IF ast.t = ".." THEN Call("parseRange", <<h, parent, suffix, ast>>)
  ELSE IF ast.t = "|" THEN Call("parseListComprehension", <<h, parent, suffix, ast>>)
  ELSE IF IsPlaceholder(ast)
       THEN Ret(h, [ast EXCEPT !.p = makePath(h[parent].path, suffix)])
       ELSE Ret(h, ast)

\* Config.__init__ with Config.load / ConfigReader.load: a new root
load(h, pairs) ==
  LET cfg == Len(h) + 1
      r == Call("parseMappingBody", <<Alloc(h, NewNode("Config", 0)), cfg, pairs, 1>>)
  IN IF r.x # "" THEN r ELSE Ret(r.h, Obj(cfg))

----------------------------------------------------------------------------
\* Arithmetic of Expression.evaluate on Python numbers (bool counts as int;
\* a float is the fraction i/d).

RECURSIVE Gcd(_, _)

Gcd(a, b) == IF b = 0 THEN a ELSE Gcd(b, a % b)

Abs(n) == IF n < 0 THEN -n ELSE n

Frac(n, den) ==
  LET g == Gcd(Abs(n), Abs(den))
      sg == IF den < 0 THEN -1 ELSE 1
  IN FloatV(sg * (n \div g), sg * (den \div g))

\* a % b of Python integers, b # 0: the result has the sign of b
PyMod(a, b) == IF b > 0 THEN a % b ELSE -((-a) % (-b))

\* a faulty variant of the raise below: a division by zero yields 0
DivideByZeroSilently(h) == Ret(h, IntV(0))

\* lhs / rhs and lhs % rhs of Python with rhs zero
DivideByZero(h) == Raise(h, "ZeroDivisionError", "")

BinOp(h, op, lhs, rhs) ==
  IF IsNumber(lhs) /\ IsNumber(rhs)
  THEN LET ints == lhs.t # "float" /\ rhs.t # "float" IN
       CASE op = PLUS  -> Ret(h, IF ints THEN IntV(lhs.i + rhs.i)
                                 ELSE Frac(lhs.i * rhs.d + rhs.i * lhs.d, lhs.d * rhs.d))
         [] op = MINUS -> Ret(h, IF ints THEN IntV(lhs.i - rhs.i)
                                 ELSE Frac(lhs.i * rhs.d - rhs.i * lhs.d, lhs.d * rhs.d))
         [] op = STAR  -> Ret(h, IF ints THEN IntV(lhs.i * rhs.i)
                                 ELSE Frac(lhs.i * rhs.i, lhs.d * rhs.d))
         [] op = SLASH -> IF rhs.i = 0 THEN DivideByZero(h)
                          ELSE Ret(h, Frac(lhs.i * rhs.d, lhs.d * rhs.i))
         [] op = MOD /\ ints -> IF rhs.i = 0 THEN DivideByZero(h)
                                ELSE Ret(h, IntV(PyMod(lhs.i, rhs.i)))
         [] op \notin {PLUS, MINUS, STAR, SLASH, MOD} -> Raise(h, "ValueError", "Invalid operator")
  ELSE CASE op = PLUS /\ lhs.t = "str" /\ rhs.t = "str" -> Ret(h, StrV(lhs.s \o rhs.s))
         [] op = PLUS /\ ~(lhs.t = "str" /\ rhs.t = "str") -> Raise(h, "TypeError", "unsupported operand type(s)")
         [] op \in {MINUS, SLASH} -> Raise(h, "TypeError", "unsupported operand type(s)")
         [] op \in {STAR, MOD} /\ lhs.t # "str" /\ rhs.t # "str" -> Raise(h, "TypeError", "unsupported operand type(s)")
         [] op \notin {PLUS, MINUS, STAR, SLASH, MOD} -> Raise(h, "ValueError", "Invalid operator")

----------------------------------------------------------------------------
\* The resolution engine.

RECURSIVE findConfig(_, _)

\* Reference.findConfig: the nearest enclosing Config or Brick-like Mapping
\* (0 when there is none: the assertion then fails while formatting its message)
findConfig(h, container) ==
  IF container = 0 THEN 0
  ELSE LET n == h[container] IN
       IF (n.kind \in MappingKinds
             /\ ((SeqContains(n.order, "input") /\ SeqContains(n.order, "output"))
                 \/ SeqContains(n.order, "extends")))
          \/ n.kind = "Config"
       THEN container
       ELSE findConfig(h, n.parent)

\* list indexing data[index] of Python: position in 1..Len, or 0 for IndexError
ListIndex(len, idx) ==
  IF 0 <= idx /\ idx < len THEN idx + 1
  ELSE IF -len <= idx /\ idx < 0 THEN len + idx + 1
  ELSE 0

\* Reference.resolve
resolve(h, ref, container) ==
  IF container = 0 THEN Raise(h, "AttributeError", "path") ELSE Call("resolve2", <<h, ref, container>>)

\* the operand handling of Expression.evaluate
Operand(h, v, container) ==
  IF v.t = "Reference" THEN Call("resolve", <<h, v, container>>)
  ELSE IF v.t = "Expression" THEN Call("ExpressionEvaluate", <<h, v, container>>)
  ELSE Ret(h, v)

\* Expression.evaluate
ExpressionEvaluate(h, expr, container) ==
  LET l == Call("Operand", <<h, expr.e[1], container>>)
      r == Call("Operand", <<l.h, expr.e[2], container>>)
  IN IF l.x # "" THEN l
     ELSE IF r.x # "" THEN r
     ELSE BinOp(r.h, expr.s, l.v, r.v)

\* Container.evaluate, and Sequence.evaluate which resolves within the parent
evaluate(h, self, item) ==
  LET container == IF h[self].kind \in SequenceKinds THEN h[self].parent ELSE self IN
  IF item.t = "Reference" THEN Call("resolve", <<h, item, container>>)
  ELSE IF item.t = "Expression" THEN Call("ExpressionEvaluate", <<h, item, container>>)
  ELSE Ret(h, item)

\* a faulty variant of LazyRange.determine below: range(begin, end)
determineExclusive(h, self) ==
  LET rangeLimits == h[h[self].rangeLimits]
      begin == PyInt(rangeLimits.items[1])
      end == rangeLimits.items[2]
      r == IF end.t = "Expression" THEN Call("ExpressionEvaluate", <<h, end, h[self].parent>>)
           ELSE IF end.t = "Reference" THEN Call("resolve", <<h, end, h[self].parent>>)
           ELSE IF IsNumber(end) THEN Ret(h, IntV(PyInt(end)))
           ELSE Raise(h, "TypeError", "int() argument")
      h1 == [r.h EXCEPT ![self].has = TRUE, ![self].items = <<>>, ![self].icomments = <<>>]
      n == r.v.i - begin
  IN IF r.x # "" THEN r
     ELSE IF r.v.t \notin {"int", "bool"} THEN Raise(h1, "TypeError", "range()")
     ELSE Ret([h1 EXCEPT ![self].items = [j \in 1..(IF n > 0 THEN n ELSE 0) |-> IntV(begin + j - 1)],
                         ![self].icomments = [j \in 1..(IF n > 0 THEN n ELSE 0) |-> ""]], NoneV)

\* LazyRange.determine
determine(h, self) ==
  LET rangeLimits == h[h[self].rangeLimits]
      begin == PyInt(rangeLimits.items[1])
      end == rangeLimits.items[2]
      r == IF end.t = "Expression" THEN Call("ExpressionEvaluate", <<h, end, h[self].parent>>)
           ELSE IF end.t = "Reference" THEN Call("resolve", <<h, end, h[self].parent>>)
           ELSE IF IsNumber(end) THEN Ret(h, IntV(PyInt(end)))
           ELSE Raise(h, "TypeError", "int() argument")
      h1 == [r.h EXCEPT ![self].has = TRUE, ![self].items = <<>>, ![self].icomments = <<>>]
      n == r.v.i - begin + 1
  IN IF r.x # "" THEN r
     ELSE IF r.v.t \notin {"int", "bool"} THEN Raise(h1, "TypeError", "range()")
     ELSE Ret([h1 EXCEPT ![self].items = [j \in 1..(IF n > 0 THEN n ELSE 0) |-> IntV(begin + j - 1)],
                         ![self].icomments = [j \in 1..(IF n > 0 THEN n ELSE 0) |-> ""]], NoneV)

\* Sequence.__getitem__
SequenceGetitem(h, self, index) ==
  LET data == h[self].items
      pos == IF index.t \in {"int", "bool"} THEN ListIndex(Len(data), index.i) ELSE 0
  IN IF index = StrV("length") THEN Ret(h, IntV(Len(data)))
     ELSE IF pos = 0 THEN Raise(h, ConfigResolutionError, "is not a valid index")
     ELSE Call("evaluate", <<h, self, data[pos]>>)

\* rv[key]: Mapping.__getitem__, Sequence.__getitem__, LazyRange.__getitem__,
\* LazySequence.__getitem__, or the TypeError of subscripting a scalar.
\* LazySequence.__getitem__ asks hasattr(self, 'data'); as long as there is
\* no `data`, LazySequence.__getattr__ is called for it, which asks
\* hasattr(self, 'data') again, and so on until the interpreter gives up.
getitem(h, rv, key) ==
  IF rv.t = "obj"
  THEN LET self == rv.i
           n == h[self] IN
       IF n.kind \in MappingKinds
       THEN IF key.t = "str" /\ key.s \in DOMAIN n.data
            THEN Call("evaluate", <<h, self, n.data[key.s]>>)
            ELSE Raise(h, "AttributeError", "key")
       ELSE IF n.kind = "LazyRange" /\ ~n.has
            THEN LET d == Call("determine", <<h, self>>) IN
                 IF d.x # "" THEN d ELSE Call("SequenceGetitem", <<d.h, self, key>>)
       ELSE IF n.kind = "LazySequence" /\ ~n.has
            THEN Raise(h, RecursionError, "maximum recursion depth exceeded")
            ELSE Call("SequenceGetitem", <<h, self, key>>)
  ELSE CASE rv.t \in {"int", "float", "bool", "None"} -> Raise(h, "TypeError", "not subscriptable")
         [] rv.t = "str" /\ key.t \notin {"int", "bool"} -> Raise(h, "TypeError", "string indices")

\* the loop over elements[1:] in Reference.resolve2
resolveSuffix(h, container, rv, elements, j) ==
  IF j > Len(elements) THEN Ret(h, rv)
  ELSE LET item == elements[j].e[1]
           k == IF item.t = "Reference" THEN Call("resolve2", <<h, item, container>>) ELSE Ret(h, item)
           r == Call("getitem", <<k.h, rv, k.v>>)
       IN IF k.x # "" THEN k
          ELSE IF r.x # "" THEN r
          ELSE Call("resolveSuffix", <<r.h, container, r.v, elements, j + 1>>)

\* a faulty variant of the raise below: the error raised for a first key that
\* is being resolved is a plain ConfigError, which the callers' handlers take
\* for a failed lookup
CircularReferenceAsConfigError(h, parentConfig, firstkey) ==
  Raise([h EXCEPT ![parentConfig].resolving = @ \ {firstkey}],
        ConfigError, "Circular reference")

\* the raise of Reference.resolve2 for a first key that is being resolved
CircularReference(h, parentConfig, firstkey) ==
  Raise([h EXCEPT ![parentConfig].resolving = @ \ {firstkey}],
        ConfigResolutionError, "Circular reference")

\* what Reference.resolve2 does when the attempt in `current` is over:
\* r is the outcome of the try block up to the last suffix
AttemptDone(r, parentConfig, firstkey) ==
  IF r.x = ""
  THEN IF firstkey \in r.h[parentConfig].resolving
       THEN Ret([r.h EXCEPT ![parentConfig].resolving = @ \ {firstkey}], r.v)
       ELSE Raise(r.h, "KeyError", "")
  ELSE r

RECURSIVE PyEval(_, _, _)

\* eval(s, vars(ns)) for the dotted name s that the elements spell, from
\* element j on, v being the object reached: Absent when eval raises
PyEval(v, elements, j) ==
  IF j > Len(elements) THEN v
  ELSE LET name == IF j = 1 THEN elements[1].s ELSE elements[j].e[1].s
           hit == {n \in 1..Len(v.e) : v.e[n].k = name}
       IN IF v.t # "namespace" \/ (j > 1 /\ elements[j].t # DOT) \/ hit = {} THEN Absent
          ELSE PyEval(v.e[CHOOSE n \in hit : TRUE].v, elements, j + 1)

\* the loop over the namespaces in Reference.resolve2: the value that the
\* first namespace that evaluates the expression gives, Absent when none does
ResolveBacktick(h, ref, current) ==
  LET namespaces == h[current].namespaces
      found == {j \in 1..Len(namespaces) : PyEval(namespaces[j], ref.e, 1) # Absent}
  IN IF found = {} THEN Ret(h, Absent)
     ELSE Ret(h, PyEval(namespaces[CHOOSE j \in found : \A o \in found : j <= o], ref.e, 1))

\* the while loop of Reference.resolve2, from the container `current` upwards
resolveFrom(h, ref, container, current, elements, parentConfig) ==
  IF current = 0
  THEN Raise(h, ConfigResolutionError, "unable to evaluate")
  ELSE IF elements[1] = StrV(UNDERSCORE)
  THEN IF Len(elements) = 1 THEN Raise(h, "IndexError", "")
       ELSE Call("resolveFrom", <<h, ref, container, h[current].parent,
                        <<elements[2].e[1]>> \o SubSeq(elements, 3, Len(elements)), parentConfig>>)
  ELSE IF ref.s = BACKTICK
  THEN IF h[current].kind # "Config" THEN Raise(h, "AttributeError", "namespaces")
       ELSE IF ResolveBacktick(h, ref, current).v # Absent THEN ResolveBacktick(h, ref, current)
       ELSE Call("resolveFrom", <<h, ref, container, h[current].parent, elements, parentConfig>>)
  ELSE LET pc == IF parentConfig = 0 THEN findConfig(h, current) ELSE parentConfig
           firstkey == elements[1]
           h1 == [h EXCEPT ![pc].resolving = @ \cup {firstkey}]
           r0 == IF firstkey.t = "str" /\ h[current].kind \in SequenceKinds
                 THEN Raise(h1, "AttributeError", "key")
                 ELSE Call("getitem", <<h1, Obj(current), firstkey>>)
           r1 == IF r0.x # "" THEN r0 ELSE Call("resolveSuffix", <<r0.h, container, r0.v, elements, 2>>)
           r == AttemptDone(r1, pc, firstkey)
       IN IF pc = 0 THEN Raise(h, "AttributeError", "path")
          ELSE IF firstkey \in h[pc].resolving THEN CircularReference(h, pc, firstkey)
          ELSE IF r.x = "" \/ r.x = ConfigResolutionError THEN r
          ELSE Call("resolveFrom", <<[r.h EXCEPT ![pc].resolving = @ \ {firstkey}],
                           ref, container, h[current].parent, elements, pc>>)

\* Reference.resolve2 (the value; resolveRefs = True)
resolve2(h, ref, container) == Call("resolveFrom", <<h, ref, container, container, ref.e, 0>>)

----------------------------------------------------------------------------
\* Container.instantiate and LazyRange.instantiate.  A key is passed as the
\* path suffix it stands for (an identifier, or '[%d]' for a Sequence).

\* the ConfigReader that Container.instantiate binds to `reader` in a copied Config
ConfigReader == Val("ConfigReader", 0, "", <<>>)

\* Mapping.keys / Sequence.keys, as values
keys(h, self) ==
  IF h[self].kind \in MappingKinds
  THEN [j \in 1..Len(h[self].order) |-> StrV(h[self].order[j])]
  ELSE [j \in 1..Len(h[self].items) |-> IntV(j - 1)]

\* self.data[k]
RawData(h, self, k) ==
  IF h[self].kind \in MappingKinds THEN h[self].data[k.s] ELSE h[self].items[k.i + 1]

\* `x in seq` of Python for a Sequence: iterates, evaluating each element
SequenceContains(h, seq, x, j) ==
  IF j > Len(h[seq].items) THEN Ret(h, BoolV(FALSE))
  ELSE LET r == Call("getitem", <<h, Obj(seq), IntV(j - 1)>>)
       IN IF r.x # "" THEN r
          ELSE IF r.v = x THEN Ret(r.h, BoolV(TRUE))
          ELSE Call("SequenceContains", <<r.h, seq, x, j + 1>>)

\* magicLoopGrandparent of Container.instantiate:
\* haveGrandparent and 'parts' in self.parent.parent and type(self.parent.parent.parts) is Sequence
magicLoopGrandparent(h, self) ==
  LET p == h[self].parent
      gp == IF p = 0 THEN 0 ELSE h[p].parent
  IN IF gp = 0 THEN Ret(h, BoolV(FALSE))
     ELSE IF h[gp].kind \in MappingKinds
     THEN IF ~SeqContains(h[gp].order, "parts") THEN Ret(h, BoolV(FALSE))
          ELSE LET r == Call("getitem", <<h, Obj(gp), StrV("parts")>>)
               IN IF r.x # "" THEN r
                  ELSE Ret(r.h, BoolV(r.v.t = "obj" /\ r.h[r.v.i].kind = "Sequence"))
     ELSE LET c == Call("SequenceContains", <<h, gp, StrV("parts"), 1>>)
          IN IF c.x # "" THEN c
             ELSE IF c.v = BoolV(TRUE) THEN Raise(c.h, "AttributeError", "parts")
             ELSE c

\* a faulty variant of the binding below: a key that the result already has
\* (from the Mapping it extends) keeps its value
setattrKeepExisting(h, result, k, value) ==
  IF h[result].kind \in MappingKinds /\ k.t = "str" /\ SeqContains(h[result].order, k.s)
  THEN Ret(h, NoneV)
  ELSE IF h[result].kind \in MappingKinds
  THEN IF k.t = "str" THEN addMapping(h, result, k.s, value, NoComment, TRUE)
       ELSE Raise(h, "TypeError", "key")
  ELSE IF k = IntV(Len(h[result].items))
       THEN Ret(append(h, result, value, ""), NoneV)
       ELSE Raise(h, "AssertionError", "")

\* result.__setattr__(kTarget, kopi): Mapping.__setattr__ or Sequence.__setattr__
setattr(h, result, k, value) ==
  IF h[result].kind \in MappingKinds
  THEN IF k.t = "str" THEN addMapping(h, result, k.s, value, NoComment, TRUE)
       ELSE Raise(h, "TypeError", "key")
  ELSE IF k = IntV(Len(h[result].items))
       THEN Ret(append(h, result, value, ""), NoneV)
       ELSE Raise(h, "AssertionError", "")

\* a faulty variant of the loop below: a Container of the source is bound in
\* the copy as it is
CopyKeysShared(h, self, result, copyKeys, j) ==
  IF j > Len(copyKeys) THEN Ret(h, Obj(result))
  ELSE LET k == copyKeys[j]
           r == setattr(h, result, k, RawData(h, self, k))
       IN IF k = StrV("extends") THEN Call("CopyKeys", <<h, self, result, copyKeys, j + 1>>)
          ELSE IF r.x # "" THEN r
          ELSE Call("CopyKeys", <<r.h, self, result, copyKeys, j + 1>>)

\* the loop "recursively copy the rest of our keys" of Container.instantiate
CopyKeys(h, self, result, copyKeys, j) ==
  IF j > Len(copyKeys) THEN Ret(h, Obj(result))
  ELSE LET k == copyKeys[j]
           v == RawData(h, self, k)
           nextKey == IF h[result].kind = "Sequence" THEN IndexSuffix(k.i) ELSE Suffix(k.s)
           kopi == IF v.t = "obj" THEN Call("instantiate", <<h, v.i, result, nextKey>>) ELSE Ret(h, v)
           r == setattr(kopi.h, result, k, kopi.v)
       IN IF k = StrV("extends") THEN Call("CopyKeys", <<h, self, result, copyKeys, j + 1>>)
          ELSE IF kopi.x # "" THEN kopi
          ELSE IF r.x # "" THEN r
          ELSE Call("CopyKeys", <<r.h, self, result, copyKeys, j + 1>>)

\* "resolve inheritance, without resolving References": the result to copy into
Inherit(h, self, parent, key, result) ==
  IF ~(h[self].kind \in MappingKinds /\ SeqContains(h[self].order, "extends"))
  THEN Ret(h, Obj(result))
  ELSE LET e1 == Call("getitem", <<h, Obj(self), StrV("extends")>>)
           e2 == Call("getitem", <<e1.h, Obj(self), StrV("extends")>>)
       IN IF e1.x # "" THEN e1
          ELSE IF e1.v.t # "obj" THEN Raise(e1.h, "AssertionError", "Can only extend non-scalar types")
          ELSE IF e2.x # "" THEN e2
          ELSE Call("instantiate", <<e2.h, e2.v.i, parent, key>>)

\* a faulty variant of LazyRange.instantiate below: the copy takes over the
\* contents that the source has computed
LazyRangeInstantiateComputed(h, self, parent, key) ==
  LET rl == Call("instantiate", <<h, h[self].rangeLimits, self, Suffix("rangeLimits")>>)
      result == Len(rl.h) + 1
      h1 == Alloc(rl.h, [NewNode("LazyRange", parent) EXCEPT !.rangeLimits = rl.v.i, !.has = h[self].has,
                                                               !.items = h[self].items,
                                                               !.icomments = h[self].icomments])
  IN IF rl.x # "" THEN rl
     ELSE IF parent = 0 THEN Raise(h1, "AttributeError", "path")
     ELSE Ret(setPath(h1, result, makePath(h1[parent].path, key)), Obj(result))

\* LazyRange.instantiate
LazyRangeInstantiate(h, self, parent, key) ==
  LET rl == Call("instantiate", <<h, h[self].rangeLimits, self, Suffix("rangeLimits")>>)
      result == Len(rl.h) + 1
      h1 == Alloc(rl.h, [NewNode("LazyRange", parent) EXCEPT !.rangeLimits = rl.v.i])
  IN IF rl.x # "" THEN rl
     ELSE IF parent = 0 THEN Raise(h1, "AttributeError", "path")
     ELSE Ret(setPath(h1, result, makePath(h1[parent].path, key)), Obj(result))

\* Container.instantiate(parent, key) of the Container `self`
\* (the magic loops of bricks with a `parts` Sequence are not part of the model)
instantiate(h, self, parent, key) ==
  IF h[self].kind = "LazyRange" THEN Call("LazyRangeInstantiate", <<h, self, parent, key>>)
  ELSE IF h[self].kind = "LazySequence" THEN Call("LazySequenceInstantiate", <<h, self, parent, key>>)
  ELSE
  LET result0 == Len(h) + 1
      h0 == Alloc(h, NewNode(h[self].kind, parent))
      h1 == IF h[self].kind = "Config"
            THEN addMapping(h0, result0, "reader", ConfigReader, NoComment, TRUE).h
            ELSE h0
      inh == Call("Inherit", <<h1, self, parent, key, result0>>)
      result == inh.v.i
      h2 == IF parent # 0 THEN setPath(inh.h, result, makePath(inh.h[parent].path, key)) ELSE inh.h
      magicLoop == h[self].kind = "Sequence" /\ key = Suffix("parts")
      mg == Call("magicLoopGrandparent", <<h2, self>>)
  IN IF inh.x # "" THEN inh
     ELSE IF mg.x # "" THEN mg
     ELSE CASE ~magicLoop /\ mg.v = BoolV(FALSE) ->
                 Call("CopyKeys", <<mg.h, self, result, keys(mg.h, self), 1>>)

----------------------------------------------------------------------------
\* LazySequence: [template | key: driver]

\* Reference.resolveRecursions from element j on: an element ($, ref) becomes
\* ([, value) for a number and (., value) otherwise
resolveRecursions(h, ref, container, j) ==
  IF j > Len(ref.e) THEN Ret(h, ref)
  ELSE IF ref.e[j].t # DOLLAR
  THEN Call("resolveRecursions", <<h, ref, container, j + 1>>)
  ELSE LET e == Call("resolve", <<h, ref.e[j].e[1], container>>)
           t == IF e.v.t \in {"int", "float"} THEN LBRACK ELSE DOT
       IN IF e.x # "" THEN e
          ELSE Call("resolveRecursions",
                    <<e.h, [ref EXCEPT !.e[j] = Elem(t, e.v)], container, j + 1>>)

\* one operand in Expression._internalResolveRecursions
resolveOperand(h, v, container) ==
  IF v.t = "Reference" THEN Call("resolveRecursions", <<h, v, container, 2>>)
  ELSE IF v.t = "Expression" THEN Call("ExpressionResolveRecursions", <<h, v, container>>)
  ELSE Ret(h, v)

\* Expression.resolveRecursions: a copy whose References are plain
ExpressionResolveRecursions(h, expr, container) ==
  LET lhs == Call("resolveOperand", <<h, expr.e[1], container>>)
      rhs == Call("resolveOperand", <<lhs.h, expr.e[2], container>>)
  IN IF lhs.x # "" THEN lhs
     ELSE IF rhs.x # "" THEN rhs
     ELSE Ret(rhs.h, [expr EXCEPT !.e = <<lhs.v, rhs.v>>])

\* the loop `for i, val in enumerate(specification[key])` of
\* LazySequence.determine from index i on; limit is the length that the
\* iterator took when it was made
DetermineLoop(h, self, driver, key, i, limit) ==
  IF i >= limit THEN Ret(h, NoneV)
  ELSE LET val == IF IsMapping(h, driver) THEN Ret(h, StrV(h[driver.i].order[i + 1]))
                  ELSE Call("getitem", <<h, driver, IntV(i)>>)
           context == Len(val.h) + 1
           h1 == setPath(Alloc(val.h, NewNode("Mapping", h[self].parent)), context, h[self].path)
           h2 == addMapping(h1, context, key, val.v, NoComment, TRUE).h
           listExpression == h[self].dataItem
           resolved == IF listExpression.t = "Reference"
                       THEN Call("resolveRecursions", <<h2, listExpression, context, 2>>)
                       ELSE IF listExpression.t = "Expression"
                       THEN Call("ExpressionResolveRecursions", <<h2, listExpression, context>>)
                       ELSE IF listExpression.t = "obj"
                       THEN Call("instantiate", <<h2, listExpression.i, context, IndexSuffix(i)>>)
                       ELSE Ret(h2, listExpression)
       IN IF val.x # "" THEN val
          ELSE IF resolved.x # "" THEN resolved
          ELSE Call("DetermineLoop",
                    <<append(resolved.h, self, resolved.v, ""), self, driver, key, i + 1, limit>>)

\* iter(x) for the driver x of a comprehension: the number of elements that
\* the iterator will yield
iter(h, x) ==
  IF IsMapping(h, x) THEN Ret(h, IntV(Len(h[x.i].order)))
  ELSE IF IsSequence(h, x)
  THEN IF h[x.i].kind = "LazySequence" /\ ~h[x.i].has
       THEN Raise(h, RecursionError, "maximum recursion depth exceeded")
       ELSE LET d == IF h[x.i].has THEN Ret(h, NoneV) ELSE Call("determine", <<h, x.i>>)
            IN IF d.x # "" THEN d ELSE Ret(d.h, IntV(Len(d.h[x.i].items)))
  ELSE CASE x.t \in {"int", "float", "bool", "None"} -> Raise(h, "TypeError", "not iterable")

\* LazySequence.determine: data exists, and is empty, before the driver is read
LazySequenceDetermine(h, self) ==
  LET specification == h[self].mapping
      key == h[specification].order[1]
      h1 == [h EXCEPT ![self].has = TRUE, ![self].items = <<>>, ![self].icomments = <<>>]
      driver == Call("getitem", <<h1, Obj(specification), StrV(key)>>)
      limit == Call("iter", <<driver.h, driver.v>>)
  IN IF Len(h[specification].order) # 1 THEN Raise(h, "AssertionError", "")
     ELSE IF driver.x # "" THEN driver
     ELSE IF limit.x # "" THEN limit
     ELSE Call("DetermineLoop", <<limit.h, self, driver.v, key, 0, limit.v.i>>)

\* LazySequence.instantiate: the template is copied under the key 0, which
\* makePath takes for an empty path
LazySequenceInstantiate(h, self, parent, key) ==
  LET result == Len(h) + 1
      h1 == Alloc(h, NewNode("LazySequence", parent))
      dataItem == IF h[self].dataItem.t = "obj"
                  THEN Call("instantiate", <<h1, h[self].dataItem.i, result, IndexSuffix(0)>>)
                  ELSE Ret(h1, h[self].dataItem)
      h2 == IF dataItem.v.t = "obj" THEN setPath(dataItem.h, dataItem.v.i, <<>>) ELSE dataItem.h
      mapping == Call("instantiate", <<h2, h[self].mapping, parent, Suffix("mapping")>>)
  IN IF dataItem.x # "" THEN dataItem
     ELSE IF mapping.x # "" THEN mapping
     ELSE IF parent = 0 THEN Raise(mapping.h, "AttributeError", "path")
     ELSE Ret([mapping.h EXCEPT ![result].dataItem = dataItem.v,
                                ![result].mapping = mapping.v.i,
                                ![result].path = makePath(mapping.h[parent].path, key)],
              Obj(result))

----------------------------------------------------------------------------
\* ConfigMerger.  A merger is its resolver, named as in the source.

\* a faulty variant of the resolver below: values that are neither two
\* Mappings nor two Sequences are overwritten
defaultMergeResolveOverwrites(h, map1, map2, key) ==
  LET obj1 == Call("getitem", <<h, Obj(map1), StrV(key)>>)
      obj2 == Call("getitem", <<obj1.h, Obj(map2), StrV(key)>>)
  IN IF obj1.x # "" THEN obj1
     ELSE IF obj2.x # "" THEN obj2
     ELSE Ret(obj2.h,
              StrV(IF IsMapping(obj2.h, obj1.v) /\ IsMapping(obj2.h, obj2.v) THEN "merge"
                   ELSE IF IsSequence(obj2.h, obj1.v) /\ IsSequence(obj2.h, obj2.v) THEN "append"
                   ELSE "overwrite"))

defaultMergeResolve(h, map1, map2, key) ==
  LET obj1 == Call("getitem", <<h, Obj(map1), StrV(key)>>)
      obj2 == Call("getitem", <<obj1.h, Obj(map2), StrV(key)>>)
  IN IF obj1.x # "" THEN obj1
     ELSE IF obj2.x # "" THEN obj2
     ELSE Ret(obj2.h,
              StrV(IF IsMapping(obj2.h, obj1.v) /\ IsMapping(obj2.h, obj2.v) THEN "merge"
                   ELSE IF IsSequence(obj2.h, obj1.v) /\ IsSequence(obj2.h, obj2.v) THEN "append"
                   ELSE "mismatch"))

overwriteMergeResolve(h, map1, map2, key) ==
  LET rv == Call("defaultMergeResolve", <<h, map1, map2, key>>)
  IN IF rv.x = "" /\ rv.v = StrV("mismatch") THEN Ret(rv.h, StrV("overwrite")) ELSE rv

overwriteResolve(h, map1, map2, key) == Ret(h, StrV("overwrite"))

\* self.resolver(map1, map2, key)
resolver(h, self, map1, map2, key) ==
  CASE self = "defaultMergeResolve" -> Call("defaultMergeResolve", <<h, map1, map2, key>>)
    [] self = "overwriteMergeResolve" -> Call("overwriteMergeResolve", <<h, map1, map2, key>>)
    [] self = "overwriteResolve" -> Call("overwriteResolve", <<h, map1, map2, key>>)

\* the outcome of a call that does not return
NoReturn == "no return"

\* object.__getattribute__(seq, 'data') fails for a LazyRange or LazySequence that has not
\* been determined; the loop that appends a non-empty list to itself does
\* not end
mergeSequence(h, seq1, seq2) ==
  IF ~h[seq1].has \/ ~h[seq2].has
  THEN Raise(h, "AttributeError", "data")
  ELSE IF seq1 = seq2 /\ h[seq2].items # <<>>
  THEN Raise(h, NoReturn, "")
  ELSE Ret([h EXCEPT ![seq1].items = @ \o h[seq2].items,
                     ![seq1].icomments = @ \o h[seq2].icomments], NoneV)

\* a faulty variant of the handler below: the mismatch is passed over
handleMismatchSilently(h, obj1, obj2) == Ret(h, NoneV)

handleMismatch(h, obj1, obj2) == Raise(h, ConfigError, "unable to merge")

\* the loop of ConfigMerger.mergeMapping over list(map2.keys());
\* keys1 is list(map1.keys()) as it was when the loop began
MergeKeys(h, self, map1, map2, keys1, keys2, j) ==
  IF j > Len(keys2) THEN Ret(h, NoneV)
  ELSE LET key == keys2[j]
           new == Call("getitem", <<h, Obj(map2), StrV(key)>>)
           set == setattr(new.h, map1, StrV(key), new.v)
           obj1 == Call("getitem", <<h, Obj(map1), StrV(key)>>)
           obj2 == Call("getitem", <<obj1.h, Obj(map2), StrV(key)>>)
           decision == Call("resolver", <<obj2.h, self, map1, map2, key>>)
           done == CASE decision.v = StrV("merge") ->
                          Call("mergeMapping", <<decision.h, self, obj1.v.i, obj2.v.i>>)
                     [] decision.v = StrV("append") ->
                          Call("mergeSequence", <<decision.h, obj1.v.i, obj2.v.i>>)
                     [] decision.v = StrV("overwrite") ->
                          setattr(decision.h, map1, StrV(key), obj2.v)
                     [] decision.v = StrV("mismatch") ->
                          Call("handleMismatch", <<decision.h, obj1.v, obj2.v>>)
       IN IF ~SeqContains(keys1, key)
          THEN IF new.x # "" THEN new
               ELSE IF set.x # "" THEN set
               ELSE Call("MergeKeys", <<set.h, self, map1, map2, keys1, keys2, j + 1>>)
          ELSE IF obj1.x # "" THEN obj1
          ELSE IF obj2.x # "" THEN obj2
          ELSE IF decision.x # "" THEN decision
          ELSE IF done.x # "" THEN done
          ELSE Call("MergeKeys", <<done.h, self, map1, map2, keys1, keys2, j + 1>>)

mergeMapping(h, self, map1, map2) ==
  Call("MergeKeys", <<h, self, map1, map2, h[map1].order, h[map2].order, 1>>)

\* ConfigMerger.merge(merged, mergee)
merge(h, self, merged, mergee) == Call("mergeMapping", <<h, self, merged, mergee>>)

----------------------------------------------------------------------------
\* Reading: cfg.a, cfg.m.y, cfg.s[0], ... is one __getitem__ per step.

ReadPath(h, rv, path, j) ==
  IF j > Len(path) THEN Ret(h, rv)
  ELSE LET r == Call("getitem", <<h, rv, path[j]>>)
       IN IF r.x # "" THEN r ELSE Call("ReadPath", <<r.h, r.v, path, j + 1>>)

\* A call of one method by another: f names the method and a holds its
\* arguments.  Call is the one recursive operator of the model of the library:
\* every call between the methods modelled goes through it, which keeps the
\* call tree that TLC's coverage statistics unfold small.
Call(f, a) ==
  CASE f = "parseKeyValuePair" -> parseKeyValuePair(a[1], a[2], a[3])
    [] f = "parseMappingBody" -> parseMappingBody(a[1], a[2], a[3], a[4])
    [] f = "parseSequenceItems" -> parseSequenceItems(a[1], a[2], a[3], a[4])
    [] f = "parseSequence" -> parseSequence(a[1], a[2], a[3], a[4])
    [] f = "parseRange" -> parseRange(a[1], a[2], a[3], a[4])
    [] f = "parseListComprehension" -> parseListComprehension(a[1], a[2], a[3], a[4])
    [] f = "parseMapping" -> parseMapping(a[1], a[2], a[3], a[4])
    [] f = "parseValue" -> parseValue(a[1], a[2], a[3], a[4])
    [] f = "load" -> load(a[1], a[2])
    [] f = "resolve" -> resolve(a[1], a[2], a[3])
    [] f = "Operand" -> Operand(a[1], a[2], a[3])
    [] f = "ExpressionEvaluate" -> ExpressionEvaluate(a[1], a[2], a[3])
    [] f = "evaluate" -> evaluate(a[1], a[2], a[3])
    [] f = "determine" -> determine(a[1], a[2])
    [] f = "SequenceGetitem" -> SequenceGetitem(a[1], a[2], a[3])
    [] f = "getitem" -> getitem(a[1], a[2], a[3])
    [] f = "resolveSuffix" -> resolveSuffix(a[1], a[2], a[3], a[4], a[5])
    [] f = "resolveFrom" -> resolveFrom(a[1], a[2], a[3], a[4], a[5], a[6])
    [] f = "resolve2" -> resolve2(a[1], a[2], a[3])
    [] f = "SequenceContains" -> SequenceContains(a[1], a[2], a[3], a[4])
    [] f = "magicLoopGrandparent" -> magicLoopGrandparent(a[1], a[2])
    [] f = "CopyKeys" -> CopyKeys(a[1], a[2], a[3], a[4], a[5])
    [] f = "Inherit" -> Inherit(a[1], a[2], a[3], a[4], a[5])
    [] f = "LazyRangeInstantiate" -> LazyRangeInstantiate(a[1], a[2], a[3], a[4])
    [] f = "instantiate" -> instantiate(a[1], a[2], a[3], a[4])
    [] f = "resolveRecursions" -> resolveRecursions(a[1], a[2], a[3], a[4])
    [] f = "resolveOperand" -> resolveOperand(a[1], a[2], a[3])
    [] f = "ExpressionResolveRecursions" -> ExpressionResolveRecursions(a[1], a[2], a[3])
    [] f = "DetermineLoop" -> DetermineLoop(a[1], a[2], a[3], a[4], a[5], a[6])
    [] f = "iter" -> iter(a[1], a[2])
    [] f = "LazySequenceDetermine" -> LazySequenceDetermine(a[1], a[2])
    [] f = "LazySequenceInstantiate" -> LazySequenceInstantiate(a[1], a[2], a[3], a[4])
    [] f = "defaultMergeResolve" -> defaultMergeResolve(a[1], a[2], a[3], a[4])
    [] f = "overwriteMergeResolve" -> overwriteMergeResolve(a[1], a[2], a[3], a[4])
    [] f = "overwriteResolve" -> overwriteResolve(a[1], a[2], a[3], a[4])
    [] f = "resolver" -> resolver(a[1], a[2], a[3], a[4], a[5])
    [] f = "mergeSequence" -> mergeSequence(a[1], a[2], a[3])
    [] f = "handleMismatch" -> handleMismatch(a[1], a[2], a[3])
    [] f = "MergeKeys" -> MergeKeys(a[1], a[2], a[3], a[4], a[5], a[6], a[7])
    [] f = "mergeMapping" -> mergeMapping(a[1], a[2], a[3], a[4])
    [] f = "merge" -> merge(a[1], a[2], a[3], a[4])
    [] f = "ReadPath" -> ReadPath(a[1], a[2], a[3], a[4])

Op(op, root, path, r) == [op |-> op, root |-> root, path |-> path, x |-> r.x, m |-> r.m, v |-> r.v]

\* the largest sequence index that documents and reads use
MaxIndex == 2

Ref1(a) == Reference(DOLLAR, a)

RefDot(a, b) == addElement(Reference(DOLLAR, a), DOT, StrV(b))

RefIdx(a, n) == addElement(Reference(DOLLAR, a), LBRACK, IntV(n))

\* the values that the keys a, b, c of a document are drawn from
Choices ==
  {IntV(1), Ref1("a"), Ref1("b"), Ref1("c"), Ref1("nope"), RefDot("m", "z"),
   RefIdx("s", MaxIndex - 1), RefIdx("s", MaxIndex),
   Expression(PLUS, Ref1("b"), IntV(1))}

\*   a: va  b: vb  c: vc  s: [1, $c]  r: [0..$c]  m: { a: 5, y: $a, z: $b, s: [7] }
ReadDoc(va, vb, vc) ==
  <<KV("a", va), KV("b", vb), KV("c", vc),
    KV("s", Seq_(<<IntV(1), Ref1("c")>>)),
    KV("r", Range(<<FloatV(0, 1)>>, <<Ref1("c")>>)),
    KV("m", Map(<<KV("a", IntV(5)), KV("y", Ref1("a")), KV("z", Ref1("b")),
                  KV("s", Seq_(<<IntV(7)>>))>>))>>

\* cfg.a  cfg.b  cfg.c  cfg.m.y  cfg.m.z  cfg.s[n]  cfg.r[0]  cfg.r['length']
ReadPaths ==
  {<<StrV(k)>> : k \in {"a", "b", "c"}}
    \cup {<<StrV("m"), StrV(k)>> : k \in {"y", "z"}}
    \cup {<<StrV("s"), IntV(n)>> : n \in (MaxIndex - 1)..MaxIndex}
    \cup {<<StrV("r"), IntV(0)>>, <<StrV("r"), StrV("length")>>}

InitRead ==
  \E va \in Choices, vb \in Choices, vc \in Choices :
    \E r \in {Call("load", <<<<>>, ReadDoc(va, vb, vc)>>)} :
      /\ heap = r.h
      /\ roots = <<r.v.i>>
      /\ doc = <<ReadDoc(va, vb, vc)>>
      /\ last = Op("load", r.v.i, <<>>, r)
      /\ calls = 0

\* a read of the value at `path` below the root
Read(root, path) ==
  \E r \in {Call("ReadPath", <<heap, Obj(root), path, 1>>)} :
    /\ heap' = r.h
    /\ last' = Op("read", root, path, r)
    /\ UNCHANGED <<roots, doc, calls>>

NextRead == \E path \in ReadPaths : Read(roots[1], path)

SpecRead == InitRead /\ [][NextRead]_vars

----------------------------------------------------------------------------
\* The content of a value as a tree without addresses, parents and paths:
\* what two structurally equal containers have in common.

RECURSIVE Tree(_, _)

Tree(h, v) ==
  IF v.t # "obj" THEN v
  ELSE LET n == h[v.i] IN
       IF n.kind \in MappingKinds
       THEN Val(n.kind, 0, "", [j \in 1..Len(n.order) |->
                                  [k |-> n.order[j], v |-> Tree(h, n.data[n.order[j]])]])
       ELSE IF n.kind = "LazyRange" /\ ~n.has
       THEN Val("LazyRange", 0, "", [j \in 1..Len(h[n.rangeLimits].items) |->
                                       Tree(h, h[n.rangeLimits].items[j])])
       ELSE Val("Sequence", 0, "", [j \in 1..Len(n.items) |-> Tree(h, n.items[j])])

\* the value bound to key k in a Mapping tree (NoneV when there is none)
TreeGet(t, k) ==
  IF \E j \in 1..Len(t.e) : t.e[j].k = k
  THEN t.e[CHOOSE j \in 1..Len(t.e) : t.e[j].k = k].v
  ELSE NoneV

TreeKeys(t) == {t.e[j].k : j \in 1..Len(t.e)}

----------------------------------------------------------------------------
\* Properties of reads (SpecRead).

\* the marks of all resolving sets of the heap
Marks(h) == UNION {h[id].resolving : id \in 1..Len(h)}

\* C1: after every read has returned or raised, the resolving set of every
\* scope root is empty
C1_ResolvingEmpty == last.op = "read" => Marks(heap) = {}

\* The document as a graph: a location is a path from the root, and a location
\* that holds a reference (or an expression over references) leads to the
\* location the reference names in the innermost enclosing scope that has it.

RECURSIVE AstGet(_, _, _)
AstGet(ast, path, j) ==
  IF j > Len(path) THEN ast
  ELSE IF ast.t = "{" /\ path[j].t = "str"
  THEN LET hit == {n \in 1..Len(ast.e) : ast.e[n].k = path[j].s}
       IN IF hit = {} THEN Absent
          ELSE AstGet(ast.e[CHOOSE n \in hit : TRUE].v, path, j + 1)
  ELSE IF ast.t = "[" /\ path[j].t = "int" /\ path[j].i \in 0..(Len(ast.e) - 1)
  THEN AstGet(ast.e[path[j].i + 1], path, j + 1)
  ELSE Absent

AstAt(path) == AstGet(Map(doc[1]), path, 1)

RefPath(ref) == [j \in 1..Len(ref.e) |-> IF j = 1 THEN ref.e[1] ELSE ref.e[j].e[1]]

\* the location that a reference stored at `path` names
RefTarget(path, ref) ==
  LET scopes == {n \in 0..(Len(path) - 1) : AstAt(SubSeq(path, 1, n) \o RefPath(ref)) # Absent}
  IN IF scopes = {} THEN {}
     ELSE {SubSeq(path, 1, CHOOSE n \in scopes : \A o \in scopes : o <= n) \o RefPath(ref)}

LeadsTo(path) ==
  LET v == AstAt(path)
  IN CASE v.t = "Reference" -> RefTarget(path, v)
       [] v.t = "Expression" ->
            UNION {RefTarget(path, v.e[n]) : n \in {o \in 1..2 : v.e[o].t = "Reference"}}
       [] OTHER -> {}

RECURSIVE Reach(_, _)
Reach(set, n) ==
  IF n = 0 THEN set ELSE Reach(set \cup UNION {LeadsTo(p) : p \in set}, n - 1)

\* the location lies on a cycle of references
OnCycle(path) == AstAt(path) # Absent /\ path \in Reach(LeadsTo(path), 2 * Len(doc[1]))

\* C2: a read of a key that lies on a cycle of references raises the
\* circular-reference resolution error, whatever was read before
C2_CycleRaises ==
  last.op = "read" /\ OnCycle(last.path)
    => last.x = ConfigResolutionError /\ last.m = "Circular reference"

\* a read of a key on a cycle of two or more keys, repeated: the mark of the
\* key is left in the resolving set only if the key's cycle was read before
C2_Witness ==
  /\ last.op = "read" /\ OnCycle(last.path) /\ Len(last.path) = 1
  /\ LeadsTo(last.path) # {last.path}
  /\ last.path[1] \in heap[roots[1]].resolving
  /\ last.x = ConfigResolutionError /\ last.m = "Circular reference"

\* the same read on a freshly parsed copy of the document
FreshRead(path) == Call("ReadPath", <<Call("load", <<<<>>, doc[1]>>).h, Obj(1), path, 1>>)

\* C3: a read that succeeds on a freshly parsed copy of the tree returns the
\* same after any earlier reads, failed ones included
C3_FailedReadKeepsLaterReads ==
  last.op = "read" /\ FreshRead(last.path).x = ""
    => /\ last.x = ""
       /\ Tree(heap, last.v) = Tree(FreshRead(last.path).h, FreshRead(last.path).v)

----------------------------------------------------------------------------
\* Instantiation of parts of a document.
\*   bb:    { w: 0, x: 9 }
\*   base:  { [extends: $bb]  x: 1  [y: by] }
\*   child: { [extends: $base]  [x: cx]  [y: cy]  [z: cz]  [extends: $base] }

\* how many calls of instantiate one behaviour makes at most
MaxInstantiate == 1

Opt(k, v) == IF v = Absent THEN <<>> ELSE <<KV(k, v)>>

InstDoc(bx, by, cx, cy, cz, first) ==
  <<KV("bb", Map(<<KV("w", IntV(0)), KV("x", IntV(9))>>)),
    KV("base", Map(Opt("extends", bx) \o <<KV("x", IntV(1))>> \o Opt("y", by))),
    KV("child", Map((IF first THEN <<KV("extends", Ref1("base"))>> ELSE <<>>)
                      \o Opt("x", cx) \o Opt("y", cy) \o Opt("z", cz)
                      \o (IF first THEN <<>> ELSE <<KV("extends", Ref1("base"))>>)))>>

BaseExtends == {Absent, Ref1("bb")}

BaseY == {Absent, IntV(2), Ref1("x"), Map(<<KV("p", IntV(1))>>)}

ChildX == {Absent, IntV(7)}

ChildY == {Absent, IntV(3), Ref1("w"), Map(<<KV("q", IntV(5))>>),
           Seq_(<<Ref1("x"), Map(<<KV("extends", Ref1("bb"))>>)>>),
           Range(<<FloatV(0, 1)>>, <<Ref1("x")>>)}

ChildZ == {Absent, Ref1("x")}

InitInst ==
  \E bx \in BaseExtends, by \in BaseY, cx \in ChildX, cy \in ChildY, cz \in ChildZ, first \in BOOLEAN :
    \E d \in {InstDoc(bx, by, cx, cy, cz, first)} : \E r \in {Call("load", <<<<>>, d>>)} :
      /\ heap = r.h
      /\ roots = <<r.v.i>>
      /\ doc = <<d>>
      /\ last = Op("load", r.v.i, <<>>, r)
      /\ calls = 0

NoKey == Suffix("None")

\* cfg.<path>.instantiate(): the copy becomes a new root
Instantiate(root, path) ==
  \E src \in {Call("ReadPath", <<heap, Obj(root), path, 1>>)} :
    \E r \in {IF src.x # "" THEN src
              ELSE IF src.v.t # "obj" THEN Raise(src.h, "AttributeError", "instantiate")
              ELSE Call("instantiate", <<src.h, src.v.i, 0, NoKey>>)} :
      /\ calls < MaxInstantiate
      /\ calls' = calls + 1
      /\ heap' = r.h
      /\ roots' = IF r.x = "" THEN Append(roots, r.v.i) ELSE roots
      /\ last' = Op("instantiate", root, path, r)
      /\ doc' = doc

InstPaths == {<<>>, <<StrV("bb")>>, <<StrV("base")>>, <<StrV("child")>>, <<StrV("child"), StrV("y")>>}

ReadInstPaths == {<<StrV(k)>> : k \in {"x", "y", "z"}}

NextInst ==
  \/ \E path \in InstPaths : Instantiate(roots[1], path)
  \/ \E j \in 2..Len(roots), path \in ReadInstPaths : Read(roots[j], path)

SpecInst == InitInst /\ [][NextInst]_vars

----------------------------------------------------------------------------
\* Properties of instantiate (SpecInst).

RECURSIVE Plain(_)

\* a content tree without the paths of its placeholders
Plain(t) ==
  IF t.t \in MappingKinds
  THEN [t EXCEPT !.e = [j \in 1..Len(t.e) |-> [k |-> t.e[j].k, v |-> Plain(t.e[j].v)]]]
  ELSE IF t.t \in SequenceKinds
  THEN [t EXCEPT !.e = [j \in 1..Len(t.e) |-> Plain(t.e[j])]]
  ELSE [t EXCEPT !.p = <<>>]

HasExtends(path) ==
  AstAt(path).t = "{" /\ AstAt(path \o <<StrV("extends")>>) # Absent

\* the keys that the Mapping at `path` defines itself, in document order
OwnKeys(path) ==
  LET e == AstAt(path).e
      NotExtends(kv) == kv.k # "extends"
      own == SelectSeq(e, NotExtends)
  IN [j \in 1..Len(own) |-> own[j].k]

RECURSIVE Flat(_)

\* what the document says the copy of the value at `path` is: a Mapping is
\* laid over the Mapping its `extends` names, a Sequence is copied element by
\* element, a range keeps its two limits, anything else is itself
Flat(path) ==
  LET ast == AstAt(path)
  IN CASE ast.t = "{" ->
            LET own == OwnKeys(path)
                ext == path \o <<StrV("extends")>>
                base == IF HasExtends(path)
                        THEN Flat(CHOOSE b \in RefTarget(ext, AstAt(ext)) : TRUE)
                        ELSE Val("Mapping", 0, "", <<>>)
                New(k) == k \notin TreeKeys(base)
                order == [j \in 1..Len(base.e) |-> base.e[j].k] \o SelectSeq(own, New)
            IN Val("Mapping", 0, "",
                   [j \in 1..Len(order) |->
                      [k |-> order[j],
                       v |-> IF SeqContains(own, order[j])
                             THEN Flat(path \o <<StrV(order[j])>>)
                             ELSE TreeGet(base, order[j])]])
       [] ast.t = "[" ->
            Val("Sequence", 0, "", [j \in 1..Len(ast.e) |-> Flat(path \o <<IntV(j - 1)>>)])
       [] ast.t = ".." -> Val("LazyRange", 0, "", ast.e[1].e \o ast.e[2].e)
       [] OTHER -> ast

\* C4: the copy of a Mapping with `extends: $base` has the keys of base and
\* its own keys other than extends, each bound to its own value where it has
\* one and to base's value otherwise; base is flattened the same way
C4_ExtendsOverlay ==
  last.op = "instantiate" /\ HasExtends(last.path)
    => /\ last.x = ""
       /\ LET res == Plain(Tree(heap, last.v))
              ext == last.path \o <<StrV("extends")>>
              base == Flat(CHOOSE b \in RefTarget(ext, AstAt(ext)) : TRUE)
              own == {OwnKeys(last.path)[j] : j \in 1..Len(OwnKeys(last.path))}
          IN /\ res.t = "Mapping"
             /\ TreeKeys(res) = TreeKeys(base) \cup own
             /\ "extends" \notin TreeKeys(res)
             /\ \A k \in TreeKeys(res) :
                  TreeGet(res, k) = IF k \in own THEN Flat(last.path \o <<StrV(k)>>)
                                    ELSE TreeGet(base, k)

\* child {extends: $base, y: 3} over base {extends: $bb, x: 1, y: 2} over
\* bb {w: 0, x: 9} has been instantiated
C4_Witness ==
  /\ last.op = "instantiate" /\ last.path = <<StrV("child")>> /\ last.x = ""
  /\ AstAt(<<StrV("base"), StrV("y")>>) = IntV(2)
  /\ AstAt(<<StrV("child"), StrV("y")>>) = IntV(3)
  /\ HasExtends(<<StrV("base")>>)
  /\ LET res == Tree(heap, last.v)
     IN /\ TreeKeys(res) = {"w", "x", "y"}
        /\ TreeGet(res, "w") = IntV(0)
        /\ TreeGet(res, "x") = IntV(1)
        /\ TreeGet(res, "y") = IntV(3)

RECURSIVE DataAt(_, _, _, _)

\* the value stored at `path` below v, read from the data without evaluation
DataAt(h, v, path, j) ==
  IF j > Len(path) THEN v
  ELSE IF v.t = "obj" /\ h[v.i].kind \in MappingKinds /\ SeqContains(h[v.i].order, path[j].s)
  THEN DataAt(h, h[v.i].data[path[j].s], path, j + 1)
  ELSE Absent

RECURSIVE SameCopy(_, _)

\* the content tree c has the kind, the keys in their order and the scalars
\* and placeholders (elements and path) of the content tree s; below a
\* Mapping of s that has the key extends nothing is required
SameCopy(s, c) ==
  IF s.t \in MappingKinds
  THEN \/ "extends" \in TreeKeys(s)
       \/ /\ c.t = s.t
          /\ [j \in 1..Len(c.e) |-> c.e[j].k] = [j \in 1..Len(s.e) |-> s.e[j].k]
          /\ \A j \in 1..Len(s.e) : SameCopy(s.e[j].v, c.e[j].v)
  ELSE IF s.t = "Sequence"
  THEN /\ c.t = s.t
       /\ Len(c.e) = Len(s.e)
       /\ \A j \in 1..Len(s.e) : SameCopy(s.e[j], c.e[j])
  ELSE c = s

\* the Container that the last instantiate was called on
InstSource == DataAt(heap, Obj(last.root), last.path, 1)

\* C16: the copy that instantiate returns for a Mapping, Sequence or Config
\* without extends has the kind and exactly the keys of the source in the
\* source's order, and every Reference or Expression of the source is in the
\* copy as a placeholder with the same elements and the same path
C16_CopyWithoutExtends ==
  /\ last.op = "instantiate"
  /\ InstSource.t = "obj"
  /\ heap[InstSource.i].kind \in {"Mapping", "Sequence", "Config"}
  /\ ~HasExtends(last.path)
  => /\ last.x = ""
     /\ SameCopy(Tree(heap, InstSource), Tree(heap, last.v))

----------------------------------------------------------------------------
\* Merging: a target document and a source document are loaded, the target
\* is read, and the source is merged into it under one of the three resolvers.

\* how many calls of merge one behaviour makes at most
MaxMerge == 1

Resolvers == {"defaultMergeResolve", "overwriteMergeResolve", "overwriteResolve"}

\* target:  a: ta  b: tb
TargetDoc(ta, tb) == Opt("a", ta) \o Opt("b", tb)

\* source:  a: sa  b: sb  c: sc
SourceDoc(sa, sb, sc) == Opt("a", sa) \o Opt("b", sb) \o Opt("c", sc)

TargetA ==
  {Absent, IntV(1), Map(<<KV("x", IntV(1))>>), Seq_(<<IntV(1), IntV(2)>>),
   Range(<<FloatV(0, 1)>>, <<IntV(1)>>)}

TargetB == {Absent, Ref1("a"), Ref1("zz")}

SourceA ==
  {Map(<<KV("x", IntV(2)), KV("y", IntV(3))>>), Map(<<KV("y", IntV(3)), KV("x", IntV(2))>>),
   Seq_(<<IntV(3), Ref1("q")>>), Ref1("q"), Ref1("c")}

SourceB == {Absent, Seq_(<<IntV(2)>>), Map(<<KV("y", IntV(2))>>)}

SourceC == {Absent, IntV(7)}

InitMerge ==
  \E ta \in TargetA, tb \in TargetB, sa \in SourceA, sb \in SourceB, sc \in SourceC :
    \E merged \in {Call("load", <<<<>>, TargetDoc(ta, tb)>>)} :
    \E mergee \in {Call("load", <<merged.h, SourceDoc(sa, sb, sc)>>)} :
      /\ heap = mergee.h
      /\ roots = <<merged.v.i, mergee.v.i>>
      /\ doc = <<TargetDoc(ta, tb), SourceDoc(sa, sb, sc)>>
      /\ last = Op("load", mergee.v.i, <<>>, mergee)
      /\ calls = 0

\* ConfigMerger(resolver).merge(target, source); the heap before the call is
\* kept for the properties that compare with it
Merge(self) ==
  \E r \in {Call("merge", <<heap, self, roots[1], roots[2]>>)} :
    /\ calls < MaxMerge
    /\ r.x # NoReturn
    /\ calls' = calls + 1
    /\ heap' = r.h
    /\ last' = [op |-> "merge", resolver |-> self, x |-> r.x, m |-> r.m, before |-> heap]
    /\ UNCHANGED <<roots, doc>>

MergeReadPaths == {<<StrV("a")>>, <<StrV("b")>>, <<StrV("a"), IntV(0)>>}

NextMerge ==
  \/ \E self \in Resolvers : Merge(self)
  \/ \E path \in MergeReadPaths : Read(roots[1], path)

SpecMerge == InitMerge /\ [][NextMerge]_vars

----------------------------------------------------------------------------
\* Properties of merge (SpecMerge).  In a state that a merge has produced,
\* last.before is the heap the merge began with.

\* the value stored under key k of the Mapping `map` (Absent when there is none)
StoredAt(h, map, k) ==
  IF SeqContains(h[map].order, k) THEN h[map].data[k] ELSE Absent

IsScalar(v) == v # Absent /\ v.t # "obj" /\ ~IsPlaceholder(v)

\* no key of the Mapping other than k is bound to a placeholder, which could
\* name the value of k a second time
OnlyName(h, map, k) ==
  \A o \in DOMAIN h[map].data : o # k /\ SeqContains(h[map].order, o) => ~IsPlaceholder(h[map].data[o])

MapTree(kind, pairs) ==
  Val(kind, 0, "", [j \in 1..Len(pairs) |-> [k |-> pairs[j][1], v |-> pairs[j][2]]])

\* C5, as the claim states it: merging source {a: {x:2, y:3}} into target
\* {a: {x:1}} with the default policy completes with target {a: {x:2, y:3}}
C5_DefaultMergeOverwritesScalars ==
  /\ last.op = "merge" /\ last.resolver = "defaultMergeResolve"
  /\ Tree(last.before, Obj(roots[1]))
       = MapTree("Config", <<<<"a", MapTree("Mapping", <<<<"x", IntV(1)>>>>)>>>>)
  /\ Tree(last.before, Obj(roots[2]))
       = MapTree("Config", <<<<"a", MapTree("Mapping", <<<<"x", IntV(2)>>, <<"y", IntV(3)>>>>)>>>>)
  => /\ last.x = ""
     /\ Tree(heap, Obj(roots[1]))
          = MapTree("Config", <<<<"a", MapTree("Mapping", <<<<"x", IntV(2)>>, <<"y", IntV(3)>>>>)>>>>)

\* the keys that both Mappings bind to scalars
Clash(h, map1, map2) ==
  {k \in DOMAIN h[map2].data :
     /\ SeqContains(h[map2].order, k) /\ SeqContains(h[map1].order, k)
     /\ IsScalar(h[map1].data[k]) /\ IsScalar(h[map2].data[k])}

\* the keys of map2 that map1 does not have and that come before every clash
CopiedFirst(h, map1, map2) ==
  {h[map2].order[j] : j \in {i \in 1..Len(h[map2].order) :
     /\ ~SeqContains(h[map1].order, h[map2].order[i])
     /\ \A o \in 1..i : h[map2].order[o] \notin Clash(h, map1, map2)}}

\* C5, amended: where target and source bind `a` to Mappings that bind some
\* key to scalars on both sides, the default policy raises the merge error and
\* keeps every value the target's Mapping had, having copied the keys only in
\* source that come before the clash; overwriteMergeResolve binds every key
\* of source's Mapping in the target's
C5_DefaultMergeMismatch ==
  LET b == last.before
      a1 == StoredAt(b, roots[1], "a")
      a2 == StoredAt(b, roots[2], "a")
  IN last.op = "merge" /\ IsMapping(b, a1) /\ IsMapping(b, a2) /\ Clash(b, a1.i, a2.i) # {}
     => /\ last.resolver = "defaultMergeResolve"
             => /\ last.x = ConfigError /\ last.m = "unable to merge"
                /\ \A k \in DOMAIN b[a1.i].data :
                     SeqContains(b[a1.i].order, k) => heap[a1.i].data[k] = b[a1.i].data[k]
                /\ \A k \in CopiedFirst(b, a1.i, a2.i) :
                     StoredAt(heap, a1.i, k) = b[a2.i].data[k]
        /\ last.resolver = "overwriteMergeResolve" /\ OnlyName(b, roots[1], "a")
             => \A k \in DOMAIN b[a2.i].data :
                  SeqContains(b[a2.i].order, k) => StoredAt(heap, a1.i, k) = b[a2.i].data[k]

\* source {a: {y:3, x:2}} has been merged into target {a: {x:1}} with the
\* default policy: y was copied, x raised
C5_Witness ==
  /\ last.op = "merge" /\ last.resolver = "defaultMergeResolve"
  /\ last.x = ConfigError
  /\ Tree(last.before, StoredAt(last.before, roots[1], "a")) = MapTree("Mapping", <<<<"x", IntV(1)>>>>)
  /\ Tree(heap, StoredAt(heap, roots[1], "a"))
       = MapTree("Mapping", <<<<"x", IntV(1)>>, <<"y", IntV(3)>>>>)

\* C6: where both trees bind `a` to a Sequence, the default policy leaves the
\* target's Sequence with its former elements followed by source's, the
\* comments alongside, and every Sequence with as many comments as elements
C6_SequencesAppended ==
  LET b == last.before
      a1 == StoredAt(b, roots[1], "a")
      a2 == StoredAt(b, roots[2], "a")
  IN last.op = "merge" /\ last.resolver = "defaultMergeResolve"
       /\ IsSequence(b, a1) /\ IsSequence(b, a2) /\ OnlyName(b, roots[1], "a")
     => /\ last.x # "AttributeError"
        /\ heap[a1.i].items = b[a1.i].items \o b[a2.i].items
        /\ heap[a1.i].icomments = b[a1.i].icomments \o b[a2.i].icomments
        /\ \A id \in 1..Len(heap) : Len(heap[id].items) = Len(heap[id].icomments)

\* C7: where one tree binds `a` to a Mapping and the other to a Sequence, the
\* default policy raises the merge error and the target keeps its value
C7_MappingSequenceMismatch ==
  LET b == last.before
      a1 == StoredAt(b, roots[1], "a")
      a2 == StoredAt(b, roots[2], "a")
  IN last.op = "merge" /\ last.resolver = "defaultMergeResolve"
       /\ \/ IsMapping(b, a1) /\ IsSequence(b, a2)
          \/ IsSequence(b, a1) /\ IsMapping(b, a2)
     => /\ last.x = ConfigError /\ last.m = "unable to merge"
        /\ StoredAt(heap, roots[1], "a") = a1
        /\ Tree(heap, a1) = Tree(b, a1)

\* target a: [1, 2] has met source a: { ... } under the default policy
C7_Witness ==
  /\ last.op = "merge" /\ last.resolver = "defaultMergeResolve"
  /\ IsSequence(last.before, StoredAt(last.before, roots[1], "a"))
  /\ IsMapping(last.before, StoredAt(last.before, roots[2], "a"))
  /\ last.x = ConfigError
  /\ Tree(heap, StoredAt(heap, roots[1], "a")) = Val("Sequence", 0, "", <<IntV(1), IntV(2)>>)

RECURSIVE Stored(_, _)

\* all that a tree stores: keys in order, values as stored, elements, comments
Stored(h, v) ==
  IF v.t # "obj" THEN v
  ELSE LET n == h[v.i] IN
       IF n.kind \in MappingKinds
       THEN Val(n.kind, 0, "",
                [j \in 1..Len(n.order) |->
                   [k |-> n.order[j], v |-> Stored(h, n.data[n.order[j]]),
                    c |-> n.comments[n.order[j]]]])
       ELSE IF n.kind = "LazyRange" /\ ~n.has
       THEN Val("LazyRange", 0, "", <<Stored(h, Obj(n.rangeLimits))>>)
       ELSE Val(n.kind, 0, "",
                [j \in 1..Len(n.items) |-> [v |-> Stored(h, n.items[j]), c |-> n.icomments[j]]])

\* C8: a merge leaves all that the source stores as it was
C8_SourceUnchanged ==
  last.op = "merge"
    => Stored(heap, Obj(roots[2])) = Stored(last.before, Obj(roots[2]))

\* C9: a merge under overwriteResolve succeeds and binds every key that the
\* source binds to a placeholder to that placeholder in the target
C9_OverwriteKeepsPlaceholders ==
  last.op = "merge" /\ last.resolver = "overwriteResolve"
    => /\ last.x = ""
       /\ \A k \in DOMAIN last.before[roots[2]].data :
            IsPlaceholder(last.before[roots[2]].data[k])
              => StoredAt(heap, roots[1], k) = last.before[roots[2]].data[k]

----------------------------------------------------------------------------
\* The text of a range: ConfigReader.getToken for numbers and punctuation,
\* and the token-level parse of a Sequence of numbers.  A stream is the
\* sequence of its characters, a token is [tt, token] with its characters.

WORD == "a"

NUMBER == "9"

EOF == ""

RBRACK == "]"

LBRACK2 == "a["

LPAREN == "("

LPAREN2 == "(("

RPAREN == ")"

\* STRING of the source
STRING_ == "\""

LCURLY == "{"

RCURLY == "}"

COLON == ":"

\* TRUE and FALSE of the source
TRUE_ == "True"

FALSE_ == "False"

NONE == "None"

PIPE == "|"

COMMA == ","

whitespace == {" ", "\t", "\r", "\n"}

\* (the backtick is left out)
punct == {":", "-", "+", "*", "/", "%", ",", ".", "{", "}", "[", "]", "(", ")", "@", "$", "|"}

digits == <<"0", "1", "2", "3", "4", "5", "6", "7", "8", "9">>

wordchars ==
  {"a", "b", "c", "d", "e", "f", "g", "h", "i", "j", "k", "l", "m",
   "n", "o", "p", "q", "r", "s", "t", "u", "v", "w", "x", "y", "z",
   "A", "B", "C", "D", "E", "F", "G", "H", "I", "J", "K", "L", "M",
   "N", "O", "P", "Q", "R", "S", "T", "U", "V", "W", "X", "Y", "Z", "_"}

identchars == wordchars \cup {digits[j] : j \in 1..Len(digits)}

RECURSIVE NumberToken(_, _, _)

\* the inner loop of the NUMBER branch of getToken (no exponents): the token
\* and the position after it: a character that ends the number is put back
\* unless it is whitespace
NumberToken(stream, pos, token) ==
  IF pos > Len(stream) THEN [token |-> token, pos |-> pos]
  ELSE LET c == stream[pos] IN
       IF SeqContains(digits, c) \/ (c = "." /\ ~SeqContains(token, "."))
       THEN NumberToken(stream, pos + 1, Append(token, c))
       ELSE CASE c \notin {"e", "E"} ->
                   [token |-> token, pos |-> IF c \in whitespace THEN pos + 1 ELSE pos]

RECURSIVE Join(_)

\* the string that a token's characters spell
Join(chars) == IF chars = <<>> THEN "" ELSE chars[1] \o Join(Tail(chars))

RECURSIVE WordToken(_, _, _)

\* the inner loop of the WORD branch of getToken: the character that ends
\* the word is put back
WordToken(stream, pos, token) ==
  IF pos > Len(stream) \/ stream[pos] \notin identchars THEN [token |-> token, pos |-> pos]
  ELSE WordToken(stream, pos + 1, Append(token, stream[pos]))

RECURSIVE StringToken(_, _, _)

\* the inner loop of the quoted-string branch of getToken for a string in
\* single quotes without backslashes (token begins with the opening quote):
\* pos is 0 when the stream ends before the closing quote
StringToken(stream, pos, token) ==
  IF pos > Len(stream) THEN [token |-> token, pos |-> 0]
  ELSE IF stream[pos] = "'" THEN [token |-> Append(token, "'"), pos |-> pos + 1]
  ELSE StringToken(stream, pos + 1, Append(token, stream[pos]))

RECURSIVE getToken(_, _, _)

\* ConfigReader.getToken from position pos, lastc being self.lastc
\* (comments, double quotes and triple quotes are not part of the model); an
\* unterminated string is the token of type ConfigFormatError
getToken(stream, pos, lastc) ==
  IF pos > Len(stream) THEN [tt |-> EOF, token |-> <<>>, pos |-> pos, lastc |-> ""]
  ELSE LET c == stream[pos]
           n == NumberToken(stream, pos + 1, <<c>>)
           w == WordToken(stream, pos + 1, <<c>>)
           q == StringToken(stream, pos + 1, <<c>>)
       IN CASE c \in whitespace -> getToken(stream, pos + 1, c)
            [] c = "'" ->
                 IF q.pos = 0
                 THEN [tt |-> ConfigFormatError, token |-> q.token, pos |-> Len(stream) + 1,
                       lastc |-> lastc]
                 ELSE [tt |-> STRING_, token |-> q.token, pos |-> q.pos, lastc |-> lastc]
            [] c \in wordchars ->
                 [tt |-> IF Join(w.token) \in {TRUE_, FALSE_, NONE} THEN Join(w.token) ELSE WORD,
                  token |-> w.token, pos |-> w.pos, lastc |-> w.token[Len(w.token)]]
            [] c \in punct ->
                 [tt |-> IF (lastc = "]" \/ lastc \in identchars) /\ c = "[" THEN LBRACK2
                         ELSE IF (lastc = "]" \/ lastc \in identchars) /\ c = "(" THEN LPAREN2
                         ELSE c,
                  token |-> <<c>>, pos |-> pos + 1, lastc |-> c]
            [] SeqContains(digits, c) ->
                 [tt |-> NUMBER, token |-> n.token, pos |-> n.pos, lastc |-> n.token[Len(n.token)]]

RECURSIVE Tokens(_, _, _)

\* the tokens that successive calls of getToken return, EOF last
Tokens(stream, pos, lastc) ==
  LET t == getToken(stream, pos, lastc)
  IN IF t.tt \in {EOF, ConfigFormatError} THEN <<t>> ELSE <<t>> \o Tokens(stream, t.pos, t.lastc)

RECURSIVE IntOf(_)

\* the number that a string of digits denotes
IntOf(chars) ==
  IF chars = <<>> THEN 0
  ELSE 10 * IntOf(SubSeq(chars, 1, Len(chars) - 1))
         + (CHOOSE d \in 0..9 : digits[d + 1] = chars[Len(chars)])

RECURSIVE Pow10(_)

Pow10(n) == IF n = 0 THEN 1 ELSE 10 * Pow10(n - 1)

\* eval(token) of a NUMBER token: a float when the token has a point
evalNumber(token) ==
  IF ~SeqContains(token, ".") THEN IntV(IntOf(token))
  ELSE LET dot == CHOOSE j \in 1..Len(token) : token[j] = "."
           whole == SubSeq(token, 1, dot - 1)
           frac == SubSeq(token, dot + 1, Len(token))
       IN Frac(IntOf(whole \o frac), Pow10(Len(frac)))

RECURSIVE Parse(_, _)

\* parseFactor for a NUMBER, a scalar in parentheses, a Reference that is an
\* identifier, and MINUS, which negates the whole scalar that follows it; the
\* outcome is [x, v, j]: error, value and the position of the current token
parseFactor(tokens, j) ==
  LET tt == tokens[j].tt
      rv == Parse("parseScalarTokens", <<tokens, j + 1>>)
  IN CASE tt = NUMBER -> [x |-> "", v |-> evalNumber(tokens[j].token), j |-> j + 1]
       [] tt = WORD -> [x |-> "", v |-> StrV(Join(tokens[j].token)), j |-> j + 1]
       [] tt = STRING_ ->
            [x |-> "", v |-> StrV(Join(SubSeq(tokens[j].token, 2, Len(tokens[j].token) - 1))),
             j |-> j + 1]
       [] tt \in {TRUE_, FALSE_} -> [x |-> "", v |-> BoolV(tt = TRUE_), j |-> j + 1]
       [] tt = NONE -> [x |-> "", v |-> NoneV, j |-> j + 1]
       [] tt = LPAREN ->
            IF rv.x # "" THEN rv
            ELSE IF tokens[rv.j].tt # RPAREN
            THEN [x |-> ConfigFormatError, v |-> NoneV, j |-> rv.j]
            ELSE [rv EXCEPT !.j = @ + 1]
       [] tt = DOLLAR ->
            IF tokens[j + 1].tt # WORD
            THEN [x |-> ConfigFormatError, v |-> NoneV, j |-> j + 1]
            ELSE (CASE tokens[j + 2].tt \notin {DOT, LBRACK2} ->
                         [x |-> "", v |-> Reference(DOLLAR, Join(tokens[j + 1].token)), j |-> j + 2])
       [] tt = MINUS ->
            IF rv.x # "" THEN rv
            ELSE IF rv.v.t \in {"int", "float", "bool"}
            THEN [rv EXCEPT !.v.i = -@, !.v.t = IF @ = "bool" THEN "int" ELSE @]
            ELSE [x |-> "TypeError", v |-> NoneV, j |-> rv.j]
       [] tt \in {EOF, ConfigFormatError, LBRACK, LBRACK2, RBRACK, LPAREN2, RPAREN, LCURLY, RCURLY, DOT, COMMA,
                  COLON, PIPE, PLUS, STAR, SLASH, MOD} ->
            [x |-> ConfigFormatError, v |-> NoneV, j |-> j]

\* a faulty variant of the loop below: + and - are taken on the level of *
parseTermLoopFlat(tokens, lhs) ==
  IF lhs.x # "" \/ tokens[lhs.j].tt \notin {STAR, SLASH, MOD, PLUS, MINUS} THEN lhs
  ELSE LET rhs == Parse("parseFactor", <<tokens, lhs.j + 1>>)
       IN IF rhs.x # "" THEN rhs
          ELSE Parse("parseTermLoopFlat", <<tokens, [x |-> "", j |-> rhs.j,
                                          v |-> Expression(tokens[lhs.j].tt, lhs.v, rhs.v)]>>)

\* the while loop of parseTerm: lhs is the outcome parsed so far
parseTermLoop(tokens, lhs) ==
  IF lhs.x # "" \/ tokens[lhs.j].tt \notin {STAR, SLASH, MOD} THEN lhs
  ELSE LET rhs == Parse("parseFactor", <<tokens, lhs.j + 1>>)
       IN IF rhs.x # "" THEN rhs
          ELSE Parse("parseTermLoop", <<tokens, [x |-> "", j |-> rhs.j,
                                      v |-> Expression(tokens[lhs.j].tt, lhs.v, rhs.v)]>>)

\* ConfigReader.parseTerm
parseTerm(tokens, j) == Parse("parseTermLoop", <<tokens, Parse("parseFactor", <<tokens, j>>)>>)

\* the while loop of parseScalar: lhs is the outcome parsed so far
parseScalarLoop(tokens, lhs) ==
  IF lhs.x # "" \/ tokens[lhs.j].tt \notin {PLUS, MINUS} THEN lhs
  ELSE LET rhs == Parse("parseTerm", <<tokens, lhs.j + 1>>)
       IN IF rhs.x # "" THEN rhs
          ELSE Parse("parseScalarLoop", <<tokens, [x |-> "", j |-> rhs.j,
                                        v |-> Expression(tokens[lhs.j].tt, lhs.v, rhs.v)]>>)

\* ConfigReader.parseScalar
parseScalarTokens(tokens, j) == Parse("parseScalarLoop", <<tokens, Parse("parseTerm", <<tokens, j>>)>>)

\* the while loop of parseSequence
parseSequenceElements(tokens, j, elems) ==
  IF tokens[j].tt \in {STRING_, WORD, NUMBER, LCURLY, LBRACK, LPAREN, DOLLAR, TRUE_, FALSE_,
                       NONE, MINUS}
  THEN LET value == Parse("parseValueTokens", <<tokens, j>>)
           next == IF tokens[value.j].tt = COMMA THEN value.j + 1 ELSE value.j
       IN IF value.x # "" THEN value
          ELSE Parse("parseSequenceElements", <<tokens, next, Append(elems, value.v)>>)
  ELSE [x |-> "", v |-> elems, j |-> j]

\* parseSequence with parseRange at the token level, after the while loop has
\* left `body`.  For the end of a range, parseRange has replaced the DOT by
\* (LBRACK, LBRACK) and parses a Sequence again.  The outcome holds the parse
\* tree.
parseSequenceEnd(tokens, body) ==
  LET isRange == /\ Len(body.v) = 1 /\ body.v[1].t \in {"int", "float"}
                 /\ tokens[body.j].tt = DOT
      end == Parse("parseSequenceTokens", <<tokens, body.j>>)
  IN IF body.x # "" THEN body
     ELSE IF isRange
     THEN IF end.x # "" THEN end
          ELSE CASE end.v.t = "[" -> [x |-> "", v |-> Range(body.v, end.v.e), j |-> end.j]
     ELSE CASE tokens[body.j].tt = RBRACK -> [x |-> "", v |-> Seq_(body.v), j |-> body.j + 1]
            [] tokens[body.j].tt \notin {RBRACK, PIPE} ->
                 [x |-> ConfigFormatError, v |-> NoneV, j |-> body.j]

\* token j is the LBRACK that match(LBRACK) accepts
parseSequenceTokens(tokens, j) ==
  Parse("parseSequenceEnd", <<tokens, Parse("parseSequenceElements", <<tokens, j + 1, <<>>>>)>>)

\* the while loop of parseMappingBody with parseKeyValuePair for keys that
\* are words; the outcome holds the pairs parsed (a key that occurs again is
\* found when the tree is built)
parseMappingBodyTokens(tokens, j, pairs) ==
  IF tokens[j].tt # WORD THEN [x |-> "", v |-> pairs, j |-> j]
  ELSE LET key == Join(tokens[j].token)
           value == IF tokens[j + 1].tt = COLON THEN Parse("parseValueTokens", <<tokens, j + 2>>)
                    ELSE [x |-> "", v |-> BoolV(TRUE), j |-> j + 1]
           next == IF tokens[value.j].tt = COMMA THEN value.j + 1 ELSE value.j
       IN IF value.x # "" THEN value
          ELSE IF tokens[value.j].tt \notin {EOF, WORD, RCURLY, COMMA}
          THEN [x |-> ConfigFormatError, v |-> NoneV, j |-> value.j]
          ELSE Parse("parseMappingBodyTokens", <<tokens, next, Append(pairs, KV(key, value.v))>>)

\* parseMapping at the token level: token j is the LCURLY
parseMappingTokens(tokens, j) ==
  LET body == Parse("parseMappingBodyTokens", <<tokens, j + 1, <<>>>>)
  IN IF body.x # "" THEN body
     ELSE IF tokens[body.j].tt # RCURLY THEN [x |-> ConfigFormatError, v |-> NoneV, j |-> body.j]
     ELSE [x |-> "", v |-> Map(body.v), j |-> body.j + 1]

\* parseValue at the token level
parseValueTokens(tokens, j) ==
  IF tokens[j].tt \in {STRING_, WORD, NUMBER, LPAREN, DOLLAR, TRUE_, FALSE_, NONE, MINUS}
  THEN Parse("parseScalarTokens", <<tokens, j>>)
  ELSE IF tokens[j].tt = LBRACK THEN Parse("parseSequenceTokens", <<tokens, j>>)
  ELSE IF tokens[j].tt = LCURLY THEN Parse("parseMappingTokens", <<tokens, j>>)
  ELSE [x |-> ConfigFormatError, v |-> NoneV, j |-> j]

\* ConfigReader.load at the token level: the pairs of the document
loadTokens(tokens) ==
  LET body == Parse("parseMappingBodyTokens", <<tokens, 1, <<>>>>)
  IN IF body.x # "" THEN body
     ELSE IF tokens[body.j].tt # EOF THEN [x |-> ConfigFormatError, v |-> NoneV, j |-> body.j]
     ELSE body

\* a call between the methods of ConfigReader above
Parse(f, a) ==
  CASE f = "parseFactor" -> parseFactor(a[1], a[2])
    [] f = "parseTermLoopFlat" -> parseTermLoopFlat(a[1], a[2])
    [] f = "parseTermLoop" -> parseTermLoop(a[1], a[2])
    [] f = "parseTerm" -> parseTerm(a[1], a[2])
    [] f = "parseScalarLoop" -> parseScalarLoop(a[1], a[2])
    [] f = "parseScalarTokens" -> parseScalarTokens(a[1], a[2])
    [] f = "parseSequenceElements" -> parseSequenceElements(a[1], a[2], a[3])
    [] f = "parseSequenceEnd" -> parseSequenceEnd(a[1], a[2])
    [] f = "parseSequenceTokens" -> parseSequenceTokens(a[1], a[2])
    [] f = "parseMappingBodyTokens" -> parseMappingBodyTokens(a[1], a[2], a[3])
    [] f = "parseMappingTokens" -> parseMappingTokens(a[1], a[2])
    [] f = "parseValueTokens" -> parseValueTokens(a[1], a[2])
    [] f = "loadTokens" -> loadTokens(a[1])

\* the parse tree of the text of a Sequence that follows "key: " in a document:
\* the last character read before it is the blank
parseText(stream) == Parse("parseSequenceTokens", <<Tokens(stream, 1, " "), 1>>)

----------------------------------------------------------------------------
\* Ranges: the document  r: [begin..end]  is lexed, parsed and read.

\* the bounds of a range are drawn from -MaxRange..MaxRange and two numbers
\* of two digits
MaxRange == 3

Endpoints == ((-MaxRange)..MaxRange) \cup {10, 12}

RECURSIVE Decimal(_)

Decimal(n) ==
  IF n < 0 THEN <<"-">> \o Decimal(-n)
  ELSE IF n < 10 THEN <<digits[n + 1]>>
  ELSE Decimal(n \div 10) \o <<digits[(n % 10) + 1]>>

RangeText(begin, end) == <<"[">> \o Decimal(begin) \o <<".", ".">> \o Decimal(end) \o <<"]">>

InitRange ==
  \E begin \in Endpoints, end \in Endpoints :
    \E ast \in {parseText(RangeText(begin, end))} :
    \E r \in {IF ast.x # "" THEN Raise(<<>>, ast.x, "") ELSE Call("load", <<<<>>, <<KV("r", ast.v)>>>>)} :
      /\ heap = r.h
      /\ roots = <<1>>
      /\ doc = <<[text |-> RangeText(begin, end), begin |-> begin, end |-> end]>>
      /\ last = Op("load", 1, <<>>, r)
      /\ calls = 0

RangeReadPaths ==
  {<<StrV("r"), IntV(n)>> : n \in 0..MaxIndex} \cup {<<StrV("r"), StrV("length")>>}

NextRange == \E path \in RangeReadPaths : last.x = "" /\ Read(roots[1], path)

SpecRange == InitRange /\ [][NextRange]_vars

\* C10: the range [begin..end] is the sequence begin, begin + 1, ..., end,
\* empty when end < begin; it loads without error, its length reads as
\* end - begin + 1 (0 when reversed) and its element n reads as begin + n
C10_RangeInclusive ==
  LET begin == doc[1].begin
      end == doc[1].end
      n == IF begin <= end THEN end - begin + 1 ELSE 0
      r == heap[roots[1]].data["r"].i
  IN /\ last.op = "load" => last.x = ""
     /\ last.op = "read" =>
          /\ heap[r].has
          /\ heap[r].items = [j \in 1..n |-> IntV(begin + j - 1)]
          /\ last.path[2] = StrV("length") => last.x = "" /\ last.v = IntV(n)
          /\ last.path[2].t = "int" /\ last.path[2].i < n
               => last.x = "" /\ last.v = IntV(begin + last.path[2].i)
          /\ last.path[2].t = "int" /\ last.path[2].i >= n
               => last.x = ConfigResolutionError /\ last.m = "is not a valid index"

\* [1..3] has been read at index 2
C10_Witness ==
  /\ doc[1].text = <<"[", "1", ".", ".", "3", "]">>
  /\ last.op = "read" /\ last.path = <<StrV("r"), IntV(2)>>
  /\ last.x = "" /\ last.v = IntV(3)
  /\ heap[heap[roots[1]].data["r"].i].items = <<IntV(1), IntV(2), IntV(3)>>

----------------------------------------------------------------------------
\* Comprehensions: documents elems: [10, 20, ...]  c: [template | i: driver]

\* the largest end of a driver range [0..end]
MaxComp == 2

\* the value that a mutation binds
Mutated == IntV(9)

\* $elems[$i]
RefNested == addElement(Reference(DOLLAR, "elems"), DOLLAR, Ref1("i"))

Templates ==
  [map |-> Map(<<KV("v", Ref1("i"))>>),
   seq |-> Seq_(<<IntV(1), Ref1("i")>>),
   nested |-> RefNested,
   expr |-> Expression(PLUS, RefNested, IntV(1)),
   scalar |-> IntV(5),
   loopKey |-> Ref1("i")]

\* the drivers [0..end] and the plain sequence [2, 0], with the values they yield
Drivers ==
  {[ast |-> parseText(RangeText(0, end)).v, values |-> [j \in 1..(end + 1) |-> j - 1]] :
     end \in 0..MaxComp}
  \cup {[ast |-> Seq_(<<IntV(2), IntV(0)>>), values |-> <<2, 0>>]}

\* elems has an element for every value of a driver
Elems == [j \in 1..(MaxComp + 1) |-> 10 * j]

CompDoc(template, driver) ==
  <<KV("elems", Seq_([j \in 1..Len(Elems) |-> IntV(Elems[j])])),
    KV("c", Comp(Templates[template], "i", driver.ast))>>

InitComp ==
  \E template \in DOMAIN Templates, driver \in Drivers :
    \E r \in {Call("load", <<<<>>, CompDoc(template, driver)>>)} :
      /\ heap = r.h
      /\ roots = <<1>>
      /\ doc = <<[template |-> template, values |-> driver.values]>>
      /\ last = Op("load", 1, <<>>, r)
      /\ calls = 0

CompReadPaths ==
  {<<StrV("c"), IntV(k)>> : k \in 0..MaxComp}
  \cup {<<StrV("c"), IntV(k), StrV("v")>> : k \in 0..MaxComp}
  \cup {<<StrV("c"), IntV(k), IntV(1)>> : k \in 0..MaxComp}
  \cup {<<StrV("c"), StrV("length")>>}

\* the LazySequence bound to c
CompSeq == heap[roots[1]].data["c"].i

\* determine() called on the LazySequence itself
Determine ==
  \E r \in {Call("LazySequenceDetermine", <<heap, CompSeq>>)} :
    /\ heap' = r.h
    /\ last' = Op("determine", roots[1], <<>>, r)
    /\ calls' = calls + 1
    /\ UNCHANGED <<roots, doc>>

\* cfg.c[k].v = 9 for an element that is a Mapping, cfg.c[k][n] = 9 with n
\* the length of an element that is a Sequence
Assign(k) ==
  \E e \in {Call("ReadPath", <<heap, Obj(roots[1]), <<StrV("c"), IntV(k)>>, 1>>)} :
    \E r \in {IF e.x # "" THEN e
              ELSE IF e.v.t # "obj" THEN Raise(e.h, "AttributeError", "v")
              ELSE setattr(e.h, e.v.i,
                           IF IsMapping(e.h, e.v) THEN StrV("v") ELSE IntV(Len(e.h[e.v.i].items)),
                           Mutated)} :
      /\ heap' = r.h
      /\ last' = Op("assign", roots[1], <<StrV("c"), IntV(k)>>, r)
      /\ calls' = calls + 1
      /\ UNCHANGED <<roots, doc>>

\* the number of calls of a run that change the tree
MaxCalls == 2

NextComp ==
  \/ \E path \in CompReadPaths : Read(roots[1], path)
  \/ calls < MaxCalls /\ Determine
  \/ \E k \in 0..MaxComp : calls < MaxCalls /\ Assign(k)

SpecComp == InitComp /\ [][NextComp]_vars

\* what element k of the comprehension reads as, from the document alone
\* (for the containers: what their entry `v`, or their element 1, reads as)
Expansion(k) ==
  LET d == doc[1].values[k + 1] IN
  CASE doc[1].template \in {"map", "seq", "loopKey"} -> IntV(d)
    [] doc[1].template = "nested" -> IntV(Elems[d + 1])
    [] doc[1].template = "expr" -> IntV(Elems[d + 1] + 1)
    [] doc[1].template = "scalar" -> IntV(5)

\* the part of a read path that leads into element k
Inner == [map |-> <<StrV("v")>>, seq |-> <<IntV(1)>>, nested |-> <<>>, expr |-> <<>>,
          scalar |-> <<>>, loopKey |-> <<>>]

\* C11: the comprehension expands, on first access, into one element per
\* element of the driver, in order: its length reads as the number of driver
\* elements, and element k reads as the template with the k-th driver value
\* in the place of the loop key
C11_ComprehensionExpands ==
  last.op = "read" =>
    /\ last.path = <<StrV("c"), StrV("length")>>
         => last.x = "" /\ last.v = IntV(Len(doc[1].values))
    /\ \A k \in 0..(Len(doc[1].values) - 1) :
         doc[1].template # "loopKey" /\ last.path = <<StrV("c"), IntV(k)>> \o Inner[doc[1].template]
           => last.x = "" /\ last.v = Expansion(k)

----------------------------------------------------------------------------
\* Scopes: documents
\*   [a: A]  y: $a.b  m: { [a: A]  y: $a.b  n: { [a: A]  y: $a.b } }
\* where each of the three scopes binds a, or does not, in one of the ways of
\* ScopeChoices.

\* a.b as a reference
RefAB == RefDot("a", "b")

\* what a scope binds a to; v tells the scopes apart
ScopeChoices(v) ==
  [absent |-> Absent,
   whole |-> Map(<<KV("b", IntV(v))>>),
   partial |-> Map(<<KV("c", IntV(v))>>),
   scalar |-> IntV(v),
   sequence |-> Seq_(<<IntV(v)>>),
   dangling |-> Ref1("nope"),
   inner |-> Map(<<KV("b", Ref1("nope"))>>)]

ScopeNames == {"absent", "whole", "partial", "scalar", "sequence", "dangling", "inner"}

\* the value of b in the scope at depth d
ScopeValue(d) == 5 + d

\* choice[d + 1] is the choice of the scope at depth d: the root, m, m.n
ScopeDoc(choice) ==
  Opt("a", ScopeChoices(ScopeValue(0))[choice[1]])
  \o <<KV("y", RefAB),
       KV("m", Map(Opt("a", ScopeChoices(ScopeValue(1))[choice[2]])
                   \o <<KV("y", RefAB),
                        KV("n", Map(Opt("a", ScopeChoices(ScopeValue(2))[choice[3]])
                                    \o <<KV("y", RefAB)>>))>>))>>

InitScope ==
  \E choice \in [1..3 -> ScopeNames] :
    \E r \in {Call("load", <<<<>>, ScopeDoc(choice)>>)} :
      /\ heap = r.h
      /\ roots = <<1>>
      /\ doc = <<choice>>
      /\ last = Op("load", 1, <<>>, r)
      /\ calls = 0

\* the reads of y at depth 0, 1 and 2
ScopeReadPaths ==
  {<<StrV("y")>>, <<StrV("m"), StrV("y")>>, <<StrV("m"), StrV("n"), StrV("y")>>}

NextScope == \E path \in ScopeReadPaths : Read(roots[1], path)

SpecScope == InitScope /\ [][NextScope]_vars

\* the depths, from d outwards, of the scopes in which the whole chain a.b resolves
Resolving(d) == {e \in 0..d : doc[1][e + 1] = "whole"}

\* the greatest element of a non-empty set of numbers
Max(S) == CHOOSE n \in S : \A o \in S : o <= n

\* C12: a read of $a.b from the container at depth d (with no resolution
\* left unfinished by an earlier read) returns the value of a.b in the
\* nearest enclosing container, the requesting one included, in which the
\* whole chain resolves; in particular the value of the root when only the
\* root binds a
C12_NearestEnclosingScope ==
  [][(Marks(heap) = {} /\ last'.op = "read")
       => LET d == Len(last'.path) - 1 IN
          Resolving(d) # {}
            => last'.x = "" /\ last'.v = IntV(ScopeValue(Max(Resolving(d))))]_vars

----------------------------------------------------------------------------
\* Expressions: documents  a: A  b: B  c: C  x: <text>  y: $x  where the text
\* of x is lexed by getToken and parsed by parseScalar.

\* the operands a, b and c are drawn from -MaxOperand..MaxOperand
MaxOperand == 2

\* the texts of x, each with the tree that the usual precedence and
\* associativity give it
Texts ==
  {[text |-> <<"$", "a", " ", "+", " ", "$", "b", " ", "*", " ", "2">>,
    tree |-> Expression(PLUS, Ref1("a"), Expression(STAR, Ref1("b"), IntV(2)))],
   [text |-> <<"$", "a", " ", "-", " ", "$", "b", " ", "-", " ", "$", "c">>,
    tree |-> Expression(MINUS, Expression(MINUS, Ref1("a"), Ref1("b")), Ref1("c"))],
   [text |-> <<"$", "a", " ", "*", " ", "$", "b", " ", "+", " ", "$", "c">>,
    tree |-> Expression(PLUS, Expression(STAR, Ref1("a"), Ref1("b")), Ref1("c"))],
   [text |-> <<"(", "$", "a", " ", "+", " ", "$", "b", ")", " ", "*", " ", "$", "c">>,
    tree |-> Expression(STAR, Expression(PLUS, Ref1("a"), Ref1("b")), Ref1("c"))],
   [text |-> <<"$", "a", " ", "-", " ", "(", "$", "b", " ", "-", " ", "$", "c", ")">>,
    tree |-> Expression(MINUS, Ref1("a"), Expression(MINUS, Ref1("b"), Ref1("c")))],
   [text |-> <<"$", "a", " ", "/", " ", "$", "b", " ", "/", " ", "$", "c">>,
    tree |-> Expression(SLASH, Expression(SLASH, Ref1("a"), Ref1("b")), Ref1("c"))],
   [text |-> <<"$", "a", " ", "%", " ", "$", "b", " ", "*", " ", "$", "c">>,
    tree |-> Expression(STAR, Expression(MOD, Ref1("a"), Ref1("b")), Ref1("c"))],
   [text |-> <<"$", "a", " ", "-", " ", "$", "b", " ", "*", " ", "$", "c", " ", "%", " ", "2">>,
    tree |-> Expression(MINUS, Ref1("a"), Expression(MOD, Expression(STAR, Ref1("b"), Ref1("c")), IntV(2)))],
   [text |-> <<"2", " ", "*", " ", "(", "$", "a", " ", "-", " ", "$", "b", ")", " ", "/", " ", "$", "c">>,
    tree |-> Expression(SLASH, Expression(STAR, IntV(2), Expression(MINUS, Ref1("a"), Ref1("b"))), Ref1("c"))],
   [text |-> <<"$", "a", " ", "/", " ", "$", "b">>,
    tree |-> Expression(SLASH, Ref1("a"), Ref1("b"))],
   [text |-> <<"$", "a", " ", "%", " ", "$", "b">>,
    tree |-> Expression(MOD, Ref1("a"), Ref1("b"))]}

\* the value that follows "x: " in a document: parseValue for a scalar
parseScalarText(stream) == Parse("parseScalarTokens", <<Tokens(stream, 1, " "), 1>>)

ExprDoc(a, b, c, x) ==
  <<KV("a", IntV(a)), KV("b", IntV(b)), KV("c", IntV(c)), KV("x", x), KV("y", Ref1("x"))>>

InitExpr ==
  \E t \in Texts, a \in (-MaxOperand)..MaxOperand, b \in (-MaxOperand)..MaxOperand,
     c \in (-MaxOperand)..MaxOperand :
    \E x \in {parseScalarText(t.text)} :
    \E r \in {IF x.x # "" THEN Raise(<<>>, x.x, "") ELSE Call("load", <<<<>>, ExprDoc(a, b, c, x.v)>>)} :
      /\ heap = r.h
      /\ roots = <<1>>
      /\ doc = <<[text |-> t.text, tree |-> t.tree, a |-> a, b |-> b, c |-> c]>>
      /\ last = Op("load", 1, <<>>, r)
      /\ calls = 0

ExprReadPaths == {<<StrV("x")>>, <<StrV("y")>>}

NextExpr == \E path \in ExprReadPaths : heap # <<>> /\ Read(roots[1], path)

SpecExpr == InitExpr /\ [][NextExpr]_vars

RECURSIVE Value(_)

\* the value of a tree of operators over the operands of the document
Value(tree) ==
  IF tree.t = "Reference" THEN Ret(<<>>, IntV(doc[1][tree.e[1].s]))
  ELSE IF tree.t = "Expression"
  THEN LET lhs == Value(tree.e[1])
           rhs == Value(tree.e[2])
       IN IF lhs.x # "" THEN lhs
          ELSE IF rhs.x # "" THEN rhs
          ELSE BinOp(<<>>, tree.s, lhs.v, rhs.v)
  ELSE Ret(<<>>, tree)

RECURSIVE DividesByZero(_)

\* some / or % of the tree has a divisor that is the number 0 or a reference
\* to an operand that is 0
DividesByZero(tree) ==
  /\ tree.t = "Expression"
  /\ \/ DividesByZero(tree.e[1])
     \/ DividesByZero(tree.e[2])
     \/ /\ tree.s \in {SLASH, MOD}
        /\ \/ tree.e[2] = IntV(0)
           \/ tree.e[2].t = "Reference" /\ doc[1][tree.e[2].e[1].s] = 0

\* the expression of x divides, or takes a modulo, by zero
ByZero == DividesByZero(doc[1].tree)

C14_Precedence ==
  /\ last.op = "load" => last.x = ""
  /\ last.op = "read" /\ last.path = <<StrV("x")>> =>
       /\ last.x = Value(doc[1].tree).x
       /\ last.x = "" => last.v = Value(doc[1].tree).v

\* $a + $b * 2 has been read with a = 1 and b = 2: 5, not 6
C14_Witness ==
  /\ doc[1].text = <<"$", "a", " ", "+", " ", "$", "b", " ", "*", " ", "2">>
  /\ doc[1].a = 1 /\ doc[1].b = 2
  /\ last.op = "read" /\ last.path = <<StrV("x")>>
  /\ last.x = "" /\ last.v = IntV(5)


----------------------------------------------------------------------------
\* Saving: a document is parsed from text, written back by Config.save, and
\* the text written is parsed again.

NEWLINE == "\n"

\* the strings of the documents below, by their characters
Spellings ==
  {<<"a">>, <<"b">>, <<"x">>, <<"N", "o", "n", "e">>, <<"T", "r", "u", "e">>,
   <<"F", "a", "l", "s", "e">>}

Spell(string) == CHOOSE chars \in Spellings : Join(chars) = string

isWord(chars) ==
  LET s == SelectSeq(chars, LAMBDA c : c # "_")
  IN s # <<>> /\ \A j \in 1..Len(s) : s[j] \in identchars

\* indent * '  '
Indstr(indent) == [j \in 1..(2 * indent) |-> " "]

\* str(value) and repr(value) of a scalar that is not a float
str(value) ==
  CASE value.t = "int" -> Decimal(value.i)
    [] value.t = "bool" -> Spell(IF value.i = 1 THEN TRUE_ ELSE FALSE_)
    [] value.t = "None" -> Spell(NONE)
    [] value.t = "str" -> Spell(value.s)

repr(string) == <<"'">> \o Spell(string) \o <<"'">>

\* Container.writeValue by a container of kind `kind`, for a value that is
\* neither a Reference nor an Expression
writeValue(kind, value, indent) ==
  (IF kind \in MappingKinds THEN <<" ">> ELSE Indstr(indent))
    \o (IF value.t = "str" THEN repr(value.s) ELSE str(value)) \o <<NEWLINE>>

RECURSIVE save(_, _, _)

\* Mapping.writeToStream and Sequence.writeToStream
writeToStream(h, self, indent, container) ==
  LET open == IF h[self].kind \in MappingKinds THEN "{" ELSE "["
      close == IF h[self].kind \in MappingKinds THEN "}" ELSE "]"
  IN IF (IF h[self].kind \in MappingKinds THEN Len(h[self].order) ELSE Len(h[self].items)) = 0
     THEN <<" ", open, " ", close, NEWLINE>>
     ELSE (IF h[container].kind \in MappingKinds THEN <<NEWLINE>> ELSE <<>>)
            \o Indstr(indent) \o <<open, NEWLINE>>
            \o save(h, self, indent + 1)
            \o Indstr(indent) \o <<close, NEWLINE>>

RECURSIVE SaveItems(_, _, _, _)

\* the loops of Mapping.save and of Sequence.save from position j on
SaveItems(h, self, indent, j) ==
  LET n == h[self]
      isMapping == n.kind \in MappingKinds
      key == n.order[j]
      value == IF isMapping THEN n.data[key] ELSE n.items[j]
      comment == IF isMapping THEN n.comments[key] ELSE n.icomments[j]
      skey == IF isWord(Spell(key)) THEN Spell(key) ELSE repr(key)
  IN IF j > (IF isMapping THEN Len(n.order) ELSE Len(n.items)) THEN <<>>
     ELSE (IF comment \notin {NoComment, ""} THEN Indstr(indent) \o <<"#">> \o Spell(comment)
           ELSE <<>>)
            \o (IF isMapping THEN Indstr(indent) \o skey \o <<" ", ":">> ELSE <<>>)
            \o (IF IsContainer(value) THEN writeToStream(h, value.i, indent, self)
                ELSE writeValue(n.kind, value, indent))
            \o SaveItems(h, self, indent, j + 1)

\* Mapping.save, Config.save and Sequence.save (a Sequence is never saved at
\* indent 0 from a Config)
save(h, self, indent) == SaveItems(h, self, indent, 1)

\* the text handed to the second parse
Text(chars) == Val("text", 0, "", chars)

\* the longest Sequence of a document
MaxElems == 2

Scalars == {IntV(1), IntV(-2), IntV(12), BoolV(TRUE), BoolV(FALSE), NoneV, StrV("x")}

FlatSeqs == {Seq_(elems) : elems \in UNION {[1..n -> Scalars] : n \in 0..MaxElems}}

SaveValues ==
  Scalars \cup FlatSeqs
    \cup {Map(<<>>)} \cup {Map(<<KV("b", v)>>) : v \in Scalars \cup {Seq_(<<IntV(1), IntV(-2)>>)}}
    \cup {Map(<<KV("a", v), KV("b", IntV(-2))>>) : v \in Scalars}
    \cup {Seq_(<<Seq_(<<v>>), Map(<<KV("a", v)>>)>>) : v \in Scalars}

SaveDocs ==
  {<<KV("a", v)>> : v \in SaveValues}
    \cup {<<KV("a", v), KV("b", w)>> : v \in Scalars, w \in {IntV(-2), StrV("x")}}
    \cup {<<KV("b", BoolV(TRUE)), KV("a", Seq_(<<>>))>>}

RECURSIVE Source(_)

RECURSIVE SourceItems(_, _)

\* a text of the value v: elements and pairs are separated by commas
Source(v) ==
  CASE v.t = "[" -> <<"[">> \o SourceItems(v, 1) \o <<"]">>
    [] v.t = "{" -> <<"{">> \o SourceItems(v, 1) \o <<"}">>
    [] v.t = "str" -> repr(v.s)
    [] v.t \in {"int", "bool", "None"} -> str(v)

SourceItems(v, j) ==
  IF j > Len(v.e) THEN <<>>
  ELSE (IF v.t = "{" THEN Spell(v.e[j].k) \o <<":", " ">> \o Source(v.e[j].v) ELSE Source(v.e[j]))
         \o (IF j < Len(v.e) THEN <<",", " ">> ELSE <<>>)
         \o SourceItems(v, j + 1)

RECURSIVE DocText(_, _)

\* a text of the document: one pair a line
DocText(pairs, j) ==
  IF j > Len(pairs) THEN <<>>
  ELSE Spell(pairs[j].k) \o <<":", " ">> \o Source(pairs[j].v) \o <<NEWLINE>>
         \o DocText(pairs, j + 1)

\* Config(stream): the text is lexed, parsed and loaded into a new root
Config(h, stream) ==
  LET parsed == Parse("loadTokens", <<Tokens(stream, 1, " ")>>)
  IN IF parsed.x # "" THEN Raise(h, parsed.x, "") ELSE Call("load", <<h, parsed.v>>)

InitSave ==
  \E pairs \in SaveDocs :
    \E r \in {Config(<<>>, DocText(pairs, 1))} :
      /\ r.x = ""
      /\ heap = r.h
      /\ roots = <<r.v.i>>
      /\ doc = pairs
      /\ last = Op("load", r.v.i, <<>>, r)
      /\ calls = 0

\* cfg.save(stream) of the first root
Save ==
  /\ Len(roots) = 1
  /\ last' = Op("save", roots[1], <<>>, Ret(heap, Text(save(heap, roots[1], 0))))
  /\ UNCHANGED <<heap, roots, doc, calls>>

\* Config(stream) of the text that was saved
Reload ==
  /\ last.op = "save"
  /\ \E r \in {Config(heap, last.v.e)} :
       /\ heap' = r.h
       /\ roots' = IF r.x = "" THEN Append(roots, r.v.i) ELSE Append(roots, 0)
       /\ last' = Op("reload", roots[1], <<>>, r)
  /\ UNCHANGED <<doc, calls>>

NextSave == Save \/ Reload

SpecSave == InitSave /\ [][NextSave]_vars

\* C15: the text that save writes for a document without references and
\* expressions parses, and the tree it yields is structurally equal to the
\* tree that was saved
C15_RoundTrip ==
  last.op = "reload" =>
    /\ last.x = ""
    /\ Tree(heap, Obj(roots[2])) = Tree(heap, Obj(roots[1]))


----------------------------------------------------------------------------
\* Copies: a part of a document is instantiated, then the copy and the
\* document are changed by assignments and appends.
\*   bb:    { w: 0, l: [1] }
\*   base:  { [extends: $bb]  x: 1  s: [{ k: 2 }] }
\*   child: { extends: $base  y: cy }

\* how many assignments and appends one behaviour makes at most
MaxMutate == 1

CopyY ==
  {IntV(3), Seq_(<<Ref1("x"), Map(<<KV("q", IntV(5))>>)>>),
   Range(<<FloatV(0, 1)>>, <<Ref1("x")>>),
   Comp(Seq_(<<Ref1("i")>>), "i", Seq_(<<IntV(0), IntV(1)>>))}

CopyDoc(bx, cy) ==
  <<KV("bb", Map(<<KV("w", IntV(0)), KV("l", Seq_(<<IntV(1)>>))>>)),
    KV("base", Map(Opt("extends", bx)
                     \o <<KV("x", IntV(1)), KV("s", Seq_(<<Map(<<KV("k", IntV(2))>>)>>))>>)),
    KV("child", Map(<<KV("extends", Ref1("base")), KV("y", cy)>>))>>

InitCopy ==
  \E bx \in BaseExtends, cy \in CopyY :
    \E d \in {CopyDoc(bx, cy)} : \E r \in {Call("load", <<<<>>, d>>)} :
      /\ heap = r.h
      /\ roots = <<r.v.i>>
      /\ doc = <<d>>
      /\ last = Op("load", r.v.i, <<>>, r)
      /\ calls = 0

\* copy = cfg.<path>.instantiate(); the heap before the call is kept for the
\* properties that compare with it
InstantiateCopy(path) ==
  \E src \in {Call("ReadPath", <<heap, Obj(roots[1]), path, 1>>)} :
    \E r \in {IF src.x # "" THEN src ELSE Call("instantiate", <<src.h, src.v.i, 0, NoKey>>)} :
      /\ Len(roots) = 1
      /\ heap' = r.h
      /\ roots' = Append(roots, IF r.x = "" THEN r.v.i ELSE 0)
      /\ last' = [op |-> "instantiate", root |-> roots[1], path |-> path, x |-> r.x, m |-> r.m,
                  v |-> r.v, before |-> heap]
      /\ UNCHANGED <<doc, calls>>

RECURSIVE Nodes(_, _)

\* the Containers that v holds, v included: the objects reached through data,
\* rangeLimits, dataItem and mapping
Nodes(h, v) ==
  IF v.t # "obj" THEN {}
  ELSE LET n == h[v.i] IN
       {v.i}
         \cup UNION {Nodes(h, n.data[n.order[j]]) : j \in 1..Len(n.order)}
         \cup UNION {Nodes(h, n.items[j]) : j \in 1..Len(n.items)}
         \cup (IF n.rangeLimits # 0 THEN Nodes(h, Obj(n.rangeLimits)) ELSE {})
         \cup Nodes(h, n.dataItem)
         \cup (IF n.mapping # 0 THEN Nodes(h, Obj(n.mapping)) ELSE {})

\* container.<k> = 9 for a Mapping below root (Mapping.__setattr__: a new key
\* or a new value for a key), container.append(9) for a Sequence
Mutate(root) ==
  \E id \in Nodes(heap, Obj(root)), k \in {"x", "n"} :
    \E r \in {IF heap[id].kind \in MappingKinds THEN setattr(heap, id, StrV(k), IntV(9))
              ELSE Ret(append(heap, id, IntV(9), ""), NoneV)} :
      /\ calls < MaxMutate
      /\ heap[id].has
      /\ calls' = calls + 1
      /\ heap' = r.h
      /\ last' = [op |-> "mutate", root |-> root, path |-> <<>>, x |-> r.x, m |-> r.m,
                  v |-> Obj(id), before |-> heap]
      /\ UNCHANGED <<roots, doc>>

NextCopy ==
  \/ \E path \in {<<>>, <<StrV("base")>>, <<StrV("child")>>} : InstantiateCopy(path)
  \/ Len(roots) = 2 /\ roots[2] # 0 /\ Mutate(roots[2])
  \/ Len(roots) = 2 /\ roots[2] # 0 /\ Mutate(roots[1])

SpecCopy == InitCopy /\ [][NextCopy]_vars

RECURSIVE Content(_, _)

\* all that v stores, without addresses, parents and paths
Content(h, v) ==
  IF v.t # "obj" THEN v
  ELSE LET n == h[v.i] IN
       [kind |-> n.kind,
        data |-> [j \in 1..Len(n.order) |-> <<n.order[j], Content(h, n.data[n.order[j]])>>],
        items |-> [j \in 1..Len(n.items) |-> Content(h, n.items[j])],
        rangeLimits |-> IF n.rangeLimits # 0 THEN Content(h, Obj(n.rangeLimits)) ELSE NoneV,
        dataItem |-> Content(h, n.dataItem),
        mapping |-> IF n.mapping # 0 THEN Content(h, Obj(n.mapping)) ELSE NoneV]

\* C17: instantiate leaves all that the document stores (the source and the
\* bases it extends) as it was; an assignment or append in the copy leaves the
\* document as it was, and one in the document leaves the copy as it was
C17_CopyIndependent ==
  /\ last.op = "instantiate"
       => Content(heap, Obj(roots[1])) = Content(last.before, Obj(roots[1]))
  /\ last.op = "mutate" /\ last.root = roots[2]
       => Content(heap, Obj(roots[1])) = Content(last.before, Obj(roots[1]))
  /\ last.op = "mutate" /\ last.root = roots[1]
       => Content(heap, Obj(roots[2])) = Content(last.before, Obj(roots[2]))

\* a Sequence or Mapping inside the copy of child, which extends base, which
\* extends bb, has been changed
C17_Witness ==
  /\ last.op = "mutate" /\ last.root = roots[2] /\ last.x = ""
  /\ last.v.i # roots[2]
  /\ SeqContains(heap[roots[2]].order, "w") /\ SeqContains(heap[roots[2]].order, "y")
  /\ Content(heap, Obj(roots[2])) # Content(last.before, Obj(roots[2]))


----------------------------------------------------------------------------
\* Keys: a document that may name a key more than once is parsed, then keys
\* are assigned and deleted.

\* how many pairs a document has at most
MaxKeys == 3

\* how many assignments and deletions one behaviour makes at most
MaxOps == 2

KeyNames == {"a", "b", "x"}

\* the documents  k1: 1  k2: 2 ...
KeyDocs ==
  UNION {{[j \in 1..n |-> KV(ks[j], IntV(j))] : ks \in [1..n -> KeyNames]} : n \in 0..MaxKeys}

\* Config(stream); a Config whose load has failed keeps what was parsed
InitKeys ==
  \E pairs \in KeyDocs :
    \E r \in {Config(<<>>, DocText(pairs, 1))} :
      /\ heap = r.h
      /\ roots = <<1>>
      /\ doc = pairs
      /\ last = [op |-> "load", key |-> "", x |-> r.x, m |-> r.m, v |-> r.v, before |-> r.h[1]]
      /\ calls = 0

\* cfg.<key> = value, cfg[key] = value; the Mapping before the call is kept for
\* the properties that compare with it
SetKey(key, value) ==
  \E r \in {setattr(heap, roots[1], StrV(key), value)} :
    /\ calls < MaxOps
    /\ calls' = calls + 1
    /\ heap' = r.h
    /\ last' = [op |-> "set", key |-> key, x |-> r.x, m |-> r.m, v |-> value,
                before |-> heap[roots[1]]]
    /\ UNCHANGED <<roots, doc>>

\* del cfg[key]
DelKey(key) ==
  \E r \in {delitem(heap, roots[1], key)} :
    /\ calls < MaxOps
    /\ calls' = calls + 1
    /\ heap' = r.h
    /\ last' = [op |-> "del", key |-> key, x |-> r.x, m |-> r.m, v |-> NoneV,
                before |-> heap[roots[1]]]
    /\ UNCHANGED <<roots, doc>>

NextKeys ==
  \/ \E key \in KeyNames : SetKey(key, IntV(9))
  \/ \E key \in KeyNames : DelKey(key)

SpecKeys == InitKeys /\ [][NextKeys]_vars

\* no element occurs twice in the sequence
Unique(seq) == \A j, k \in 1..Len(seq) : seq[j] = seq[k] => j = k

\* C18: every Mapping has each of its keys exactly once in its order; parsing
\* raises a format error exactly when the document names a key again; an
\* assignment to an existing key gives it the new value and leaves the order
\* as it was, an assignment to a new key appends it, and a deletion removes
\* the key alone
C18_KeysUnique ==
  LET now == heap[roots[1]]
      Other(k) == k # last.key
  IN /\ \A id \in 1..Len(heap) :
          heap[id].kind \in MappingKinds
            => /\ Unique(heap[id].order)
               /\ {heap[id].order[j] : j \in 1..Len(heap[id].order)} = DOMAIN heap[id].data
     /\ last.op = "load"
          => (last.x = ConfigFormatError <=> ~Unique([j \in 1..Len(doc) |-> doc[j].k]))
             /\ last.x \in {"", ConfigFormatError}
     /\ last.op = "set"
          => /\ last.x = ""
             /\ now.data[last.key] = last.v
             /\ now.order = IF SeqContains(last.before.order, last.key) THEN last.before.order
                            ELSE Append(last.before.order, last.key)
             /\ \A k \in DOMAIN now.data \ {last.key} : now.data[k] = last.before.data[k]
     /\ last.op = "del" /\ SeqContains(last.before.order, last.key)
          => /\ last.x = ""
             /\ now.order = SelectSeq(last.before.order, Other)
             /\ \A k \in DOMAIN now.data : now.data[k] = last.before.data[k]

\* an existing key that is not the last of the order has been given a new value
C18_Witness ==
  /\ last.op = "set" /\ last.x = ""
  /\ Len(last.before.order) >= 2
  /\ last.before.order[1] = last.key
  /\ last.before.data[last.key] # last.v
  /\ heap[roots[1]].order = last.before.order


----------------------------------------------------------------------------
\* Namespaces: a document holds a backtick reference, namespaces are added
\* to the Config, and the reference is read.

\* how many namespaces are added at most
MaxNamespaces == 2

\* two namespaces: both have a and o.b, the second alone has c and o.d
N1 ==
  NamespaceOf(<<[k |-> "a", v |-> IntV(1)],
                [k |-> "o", v |-> NamespaceOf(<<[k |-> "b", v |-> IntV(10)]>>)]>>)

N2 ==
  NamespaceOf(<<[k |-> "a", v |-> IntV(2)], [k |-> "c", v |-> IntV(3)],
                [k |-> "o", v |-> NamespaceOf(<<[k |-> "b", v |-> IntV(20)],
                                                [k |-> "d", v |-> IntV(21)]>>)]>>)

\* `a`, `c`, `zz`, `o.b`, `o.d`, `q.a`
Backticks ==
  {Reference(BACKTICK, n) : n \in {"a", "c", "zz"}}
    \cup {addElement(Reference(BACKTICK, "o"), DOT, StrV(n)) : n \in {"b", "d"}}
    \cup {addElement(Reference(BACKTICK, "q"), DOT, StrV("a"))}

\* the places of the reference: x: ref;  s: [ref];  m: { x: ref };  m: { s: [ref] }
Places(ref) ==
  {[pairs |-> <<KV("x", ref)>>, path |-> <<StrV("x")>>],
   [pairs |-> <<KV("s", Seq_(<<ref>>))>>, path |-> <<StrV("s"), IntV(0)>>],
   [pairs |-> <<KV("m", Map(<<KV("x", ref)>>))>>, path |-> <<StrV("m"), StrV("x")>>],
   [pairs |-> <<KV("m", Map(<<KV("s", Seq_(<<ref>>))>>))>>,
    path |-> <<StrV("m"), StrV("s"), IntV(0)>>]}

InitNs ==
  \E ref \in Backticks : \E place \in Places(ref) :
    \E r \in {Call("load", <<<<>>, place.pairs>>)} :
      /\ heap = r.h
      /\ roots = <<r.v.i>>
      /\ doc = <<place.pairs, place.path, ref>>
      /\ last = Op("load", r.v.i, <<>>, r)
      /\ calls = 0

\* cfg.addNamespace(ns) and cfg.addNamespace(ns, name)
AddNamespace(ns, name) ==
  /\ calls < MaxNamespaces
  /\ calls' = calls + 1
  /\ heap' = addNamespace(heap, roots[1], ns, name)
  /\ last' = Op("addNamespace", roots[1], <<>>, Ret(heap, ns))
  /\ UNCHANGED <<roots, doc>>

NextNs ==
  \/ \E ns \in {N1, N2} : AddNamespace(ns, "")
  \/ AddNamespace(N1, "q")
  \/ Read(roots[1], doc[2])

SpecNs == InitNs /\ [][NextNs]_vars

\* the namespaces of the Config that resolve the whole expression, by position
Resolvers19 ==
  {j \in 1..Len(heap[roots[1]].namespaces) : PyEval(heap[roots[1]].namespaces[j], doc[3].e, 1) # Absent}

\* C19: a read of a backtick reference, wherever it sits, gives the value of
\* the expression in the first namespace, in the order of registration, that
\* resolves it, and raises a resolution error when no namespace does
C19_FirstNamespace ==
  last.op = "read"
    => IF Resolvers19 = {} THEN last.x = ConfigResolutionError
       ELSE /\ last.x = ""
            /\ last.v = PyEval(heap[roots[1]].namespaces[CHOOSE j \in Resolvers19 :
                                                           \A o \in Resolvers19 : j <= o],
                               doc[3].e, 1)


----------------------------------------------------------------------------
\* The @brick decorator (woeman/decorator.py).  A class is its name, its own
\* attributes, each [k, v], and its bases; a function is its positional
\* parameter names (co_varnames up to co_argcount, self first) and the number
\* of its defaults.

BrickConfigError == "BrickConfigError"

\* how many parameters besides self a method has at most
MaxArgs == 2

Function(varnames, defaults) == [t |-> "function", varnames |-> varnames, defaults |-> defaults]

Class(name, attrs, bases) == [t |-> "class", name |-> name, attrs |-> attrs, bases |-> bases]

\* object.__init__, a slot wrapper: it has no __code__
ObjectInit == [t |-> "wrapper_descriptor"]

\* the class Brick of woeman/brick.py: __init__(self) and output(self, *args)
Brick ==
  Class("Brick", <<[k |-> "__init__", v |-> Function(<<"self">>, 0)],
                   [k |-> "output", v |-> Function(<<"self">>, 0)]>>, <<>>)

RECURSIVE Lookup(_, _)

\* getattr(cls, name) along the bases, object last; Absent for AttributeError
Lookup(cls, name) ==
  LET own == {n \in 1..Len(cls.attrs) : cls.attrs[n].k = name}
      inherited == {n \in 1..Len(cls.bases) : Lookup(cls.bases[n], name) # Absent}
  IN IF own # {} THEN cls.attrs[CHOOSE n \in own : TRUE].v
     ELSE IF inherited # {}
     THEN Lookup(cls.bases[CHOOSE n \in inherited : \A o \in inherited : n <= o], name)
     ELSE Absent

\* name in dir(cls): every class has the __init__ of object
InDir(cls, name) == Lookup(cls, name) # Absent \/ name = "__init__"

Getattr(cls, name) ==
  IF Lookup(cls, name) # Absent THEN Lookup(cls, name)
  ELSE IF name = "__init__" THEN ObjectInit
  ELSE Absent

\* func.__code__.co_varnames[1:func.__code__.co_argcount]
ArgsOf(func) == SubSeq(func.varnames, 2, Len(func.varnames))

\* BrickDecorator.parseInputs: the inputs and the number of mandatory ones
parseInputs(cls) ==
  LET input_func == Getattr(cls, "__init__")
      init_args == ArgsOf(input_func)
  IN IF ~InDir(cls, "__init__") THEN Raise(<<>>, BrickConfigError, "missing mandatory __init__()")
     ELSE IF input_func.t # "function" THEN Raise(<<>>, "AttributeError", "__code__")
     ELSE Ret(<<>>, [inputs |-> init_args, num_mandatory |-> Len(init_args) - input_func.defaults])

\* BrickDecorator.parseOutputs: the outputs
parseOutputs(cls) ==
  LET output_func == Getattr(cls, "output")
      output_args == ArgsOf(output_func)
  IN IF ~InDir(cls, "output") THEN Raise(<<>>, BrickConfigError, "missing mandatory output()")
     ELSE IF output_func.t # "function" THEN Raise(<<>>, "AttributeError", "__code__")
     ELSE IF Len(output_args) = 0
     THEN Raise(<<>>, BrickConfigError, "need to override output() with at least one argument")
     ELSE Ret(<<>>, output_args)

\* cls with the attribute name bound to value
Setattr(cls, name, value) ==
  IF \E n \in 1..Len(cls.attrs) : cls.attrs[n].k = name
  THEN [cls EXCEPT !.attrs = [n \in 1..Len(@) |->
                                IF @[n].k = name THEN [k |-> name, v |-> value] ELSE @[n]]]
  ELSE [cls EXCEPT !.attrs = Append(@, [k |-> name, v |-> value])]

\* BrickDecorator.patchConstructor: the original __init__ is kept as
\* _brick_init, the new one takes the same parameters
patchConstructor(cls, inputs, num_mandatory) ==
  Setattr(Setattr(cls, "_brick_init", Getattr(cls, "__init__")),
          "__init__", Function(<<"self">> \o inputs, Len(inputs) - num_mandatory))

\* BrickDecorator.patchFields (the fields that name the source file are left out)
patchFields(cls, inputs, outputs) ==
  Setattr(Setattr(cls, "_brick_inputs", inputs), "_brick_outputs", outputs)

\* BrickDecorator.patchClass: a class of the same name with the bases cls and Brick
patchClass(cls) == Class(cls.name, <<>>, <<cls, Brick>>)

\* BrickDecorator.create, brick(cls)
create(cls) ==
  LET ins == parseInputs(cls)
      outs == parseOutputs(cls)
  IN IF ins.x # "" THEN ins
     ELSE IF outs.x # "" THEN outs
     ELSE Ret(<<>>, patchClass(patchFields(patchConstructor(cls, ins.v.inputs, ins.v.num_mandatory),
                                           ins.v.inputs, outs.v)))

ArgNames == <<"a", "b", "c", "d">>

\* the methods def f(self, a, ...) with up to MaxArgs parameters, some with defaults
Functions ==
  {Function(<<"self">> \o SubSeq(ArgNames, 1, n), d) : n \in 0..MaxArgs, d \in 0..1} \ {Function(<<"self">>, 1)}

\* what the class body binds a name to: nothing, a method, a number
Bindings == {Absent, IntV(5)} \cup Functions

ClassBases == {<<>>, <<Brick>>, <<Class("Base", <<[k |-> "output", v |-> Function(<<"self", "r">>, 0)]>>, <<>>)>>}

Classes ==
  {Class("Experiment",
         (IF init = Absent THEN <<>> ELSE <<[k |-> "__init__", v |-> init]>>)
           \o (IF output = Absent THEN <<>> ELSE <<[k |-> "output", v |-> output]>>),
         bases) :
     init \in Bindings \ {IntV(5)}, output \in Bindings, bases \in ClassBases}

\* the class statement has been executed, the decorator has not been applied yet
InitBrick ==
  \E cls \in Classes :
    /\ heap = <<>>
    /\ roots = <<>>
    /\ doc = <<cls>>
    /\ last = [op |-> "class", x |-> "", m |-> "", v |-> cls]
    /\ calls = 0

\* @brick applied to the class: the name is bound to the class returned
Decorate ==
  \E r \in {create(doc[1])} :
    /\ last.op = "class"
    /\ heap' = IF r.x = "" THEN <<r.v>> ELSE heap
    /\ last' = [op |-> "brick", x |-> r.x, m |-> r.m, v |-> r.v]
    /\ UNCHANGED <<roots, doc, calls>>

NextBrick == Decorate

SpecBrick == InitBrick /\ [][NextBrick]_vars

\* the class has, of its own or from a base, a method output with at least
\* one parameter besides self
DefinesOutput(cls) ==
  /\ Lookup(cls, "output") # Absent
  /\ Lookup(cls, "output").t = "function"
  /\ Len(Lookup(cls, "output").varnames) >= 2

\* C20: @brick on a class without a method output() of at least one argument
\* raises BrickConfigError and no Brick class is produced
C20_OutputMissingRaises ==
  last.op = "brick" /\ ~DefinesOutput(doc[1])
    => last.x = BrickConfigError /\ heap = <<>>


----------------------------------------------------------------------------
\* Brick instances (woeman/brick.py) and the constructor that
\* BrickDecorator.patchConstructor generates.  A decorated class is a record
\* [name, base, init, output]: init and output are the statements of the
\* methods __init__(self) and output(self, result) the class body defines,
\* base is the decorated class it derives from ("" for none).  A brick is a
\* record of the heap:
\*   cls          name of its class
\*   initialized  _brick_initialized is set
\*   parts        _brick_parts, object ids
\*   parent       parent, 0 for None
\*   ref          result.ref, the id of the brick whose Output result is bound to,
\*                0 for None
\*   attrs        the instance attributes that hold a part, each [k, v]
\*   attr         the instance attribute attr, 0 while the instance has none and
\*                the attribute of the class shows
\*   site         not an attribute: the brick whose method constructed this one,
\*                0 for a construction at top level

\* statements of a method body
NewPart(attr, cls) == [op |-> "part", attr |-> attr, cls |-> cls]

\* Base.__init__(self)
BaseInit == [op |-> "base", attr |-> "", cls |-> ""]

\* result.bind(self.<attr>.result)
BindPart(attr) == [op |-> "bind", attr |-> attr, cls |-> ""]

\* Base.output(self, result)
BaseOutput == [op |-> "baseoutput", attr |-> "", cls |-> ""]

\* a class body without __init__: the class inherits the constructor of its base
Inherited == <<[op |-> "inherited", attr |-> "", cls |-> ""]>>

BrickClass(name, base, init, output_) == [name |-> name, base |-> base, init |-> init, output |-> output_]

\* object.__new__(cls)
NewBrick(cls, site) ==
  [cls |-> cls, initialized |-> FALSE, parts |-> <<>>, parent |-> 0, ref |-> 0, attrs |-> <<>>,
   attr |-> 0, site |-> site]

\* self.<attr>, 0 when the attribute is missing
PartAttr(brick_, attr) ==
  LET found == {n \in 1..Len(brick_.attrs) : brick_.attrs[n].k = attr}
  IN IF found = {} THEN 0 ELSE brick_.attrs[CHOOSE n \in found : TRUE].v

SetPartAttr(brick_, attr, id) ==
  IF PartAttr(brick_, attr) # 0
  THEN [brick_ EXCEPT !.attrs = [n \in 1..Len(@) |-> IF @[n].k = attr THEN [k |-> attr, v |-> id] ELSE @[n]]]
  ELSE [brick_ EXCEPT !.attrs = Append(@, [k |-> attr, v |-> id])]

\* Brick.__init__: an initialized brick keeps its parts
BrickInit(h, self) ==
  IF h[self].initialized THEN h
  ELSE [h EXCEPT ![self].initialized = TRUE, ![self].parts = <<>>]

\* Brick._brick_setup_pre_init: caller is the local variable self of the frame
\* that called the constructor (obtain_caller_local_var('self', depth=3)), 0
\* when that frame has none
brick_setup_pre_init(h, self, caller) ==
  IF caller # 0 /\ caller # self
  THEN [h EXCEPT ![self].parent = caller, ![caller].parts = Append(@, self)]
  ELSE [h EXCEPT ![self].parent = 0]

\* Output.bind of the output result of brick self, given the output result of
\* brick ref: the message of the error reads self._brick_ident, which an Output
\* does not have
bind(h, self, ref) ==
  IF h[ref].parent # self
  THEN Raise(h, "AttributeError", "'Output' object has no attribute '_brick_ident'")
  ELSE Ret([h EXCEPT ![self].ref = ref], NoneV)

\* Output.dependencies of the output result of brick self
dependencies(h, self) == IF h[self].ref # 0 THEN <<h[self].ref>> ELSE <<>>

RECURSIVE Invoke(_, _)

\* the class whose __init__ or output a brick of class cls runs: the class
\* itself, or the nearest base that defines the method
Definer(prog, cls, method) ==
  IF method = "output" /\ prog[cls].output = Inherited THEN prog[cls].base ELSE cls

\* one statement of a method of class cls, run in a frame whose self is self
statement(prog, h, self, cls, stmt) ==
  IF stmt.op = "part"
  THEN LET made == Invoke("brick_init", <<prog, Append(h, NewBrick(stmt.cls, self)), Len(h) + 1, stmt.cls, self>>)
       IN IF made.x # "" THEN made
          ELSE Ret([made.h EXCEPT ![self] = SetPartAttr(@, stmt.attr, Len(h) + 1)], NoneV)
  ELSE IF stmt.op \in {"base", "inherited"}
  THEN Invoke("brick_init", <<prog, h, self, prog[cls].base, self>>)
  ELSE IF stmt.op = "baseoutput"
  THEN Invoke("body", <<prog, h, self, prog[cls].base, prog[prog[cls].base].output, 1>>)
  ELSE IF PartAttr(h[self], stmt.attr) = 0
  THEN Raise(h, "AttributeError", stmt.attr)
  ELSE bind(h, self, PartAttr(h[self], stmt.attr))

\* the statements of a method body from the j-th on
body(prog, h, self, cls, stmts, j) ==
  IF j > Len(stmts) THEN Ret(h, NoneV)
  ELSE LET done == statement(prog, h, self, cls, stmts[j])
       IN IF done.x # "" THEN done
          ELSE Invoke("body", <<prog, done.h, self, cls, stmts, j + 1>>)

\* Brick._brick_setup_post_init, Brick._bind_outputs: self.output(self.result)
\* is the method of the class of the instance
brick_setup_post_init(prog, h, self) ==
  Invoke("body", <<prog, h, self, Definer(prog, h[self].cls, "output"),
                   prog[Definer(prog, h[self].cls, "output")].output, 1>>)

\* the constructor generated for class cls by patchConstructor, run on the
\* object self and called from a frame whose local variable self is caller;
\* self.result = Output(self, "result") makes a new, unbound output
brick_init(prog, h, self, cls, caller) ==
  LET pre == brick_setup_pre_init([BrickInit(h, self) EXCEPT ![self].ref = 0], self, caller)
      ran == Invoke("body", <<prog, pre, self, cls, prog[cls].init, 1>>)
  IN IF ran.x # "" THEN ran
     ELSE brick_setup_post_init(prog, ran.h, self)

Invoke(f, a) ==
  CASE f = "brick_init" -> brick_init(a[1], a[2], a[3], a[4], a[5])
    [] f = "body" -> body(a[1], a[2], a[3], a[4], a[5], a[6])

\* cls() at a call site whose frame has the local variable self = caller
construct(prog, h, cls, caller) ==
  LET made == Invoke("brick_init", <<prog, Append(h, NewBrick(cls, caller)), Len(h) + 1, cls, caller>>)
  IN IF made.x # "" THEN made ELSE Ret(made.h, Len(h) + 1)


\* how many parts the constructor of Top makes at most
MaxParts == 2

\* how many bricks are constructed at top level at most
MaxBricks == 2

PartClasses == {"Part", "Base", "Derived"}

AttrNames == <<"p1", "p2", "p3", "p4">>

\* self.p1 = A(); self.p2 = B(); ...
PartStatements(classes) == [n \in 1..Len(classes) |-> NewPart(AttrNames[n], classes[n])]

TopInits == {PartStatements(classes) : classes \in UNION {[1..n -> PartClasses] : n \in 0..MaxParts}}

TopOutputs(init) ==
  {<<>>, <<NewPart("late", "Part")>>} \cup (IF init = <<>> THEN {} ELSE {<<BindPart("p1")>>})

DerivedInits == {<<BaseInit>>, Inherited, <<BaseInit, NewPart("extra", "Part")>>}

\* the classes of testBrickParts and testBrickInheritanceParts, and a brick
\* Top that holds them as parts
Program(derived, top, out) ==
  [name \in {"Part", "Base", "Derived", "Top"} |->
     CASE name = "Part" -> BrickClass("Part", "", <<>>, <<>>)
       [] name = "Base" -> BrickClass("Base", "", <<NewPart("part", "Part")>>, <<BindPart("part")>>)
       [] name = "Derived" -> BrickClass("Derived", "Base", derived, <<BaseOutput>>)
       [] name = "Top" -> BrickClass("Top", "", top, out)]

InitParts ==
  \E derived \in DerivedInits, top \in TopInits :
    \E out \in TopOutputs(top) :
      /\ heap = <<>>
      /\ roots = <<>>
      /\ doc = Program(derived, top, out)
      /\ last = [op |-> "define", x |-> "", m |-> "", v |-> 0]
      /\ calls = 0

\* e = cls() at top level; when the constructor raises the name e stays
\* unbound and the objects made are unreachable
Construct(cls) ==
  \E r \in {construct(doc, heap, cls, 0)} :
    /\ Len(roots) < MaxBricks
    /\ heap' = IF r.x = "" THEN r.h ELSE heap
    /\ roots' = IF r.x = "" THEN Append(roots, r.v) ELSE roots
    /\ last' = [op |-> "construct", x |-> r.x, m |-> r.m, v |-> IF r.x = "" THEN r.v ELSE 0]
    /\ UNCHANGED <<doc, calls>>

NextParts == \E cls \in {"Part", "Base", "Derived", "Top"} : Construct(cls)

SpecParts == InitParts /\ [][NextParts]_vars

Occurrences(seq, e) == Cardinality({n \in 1..Len(seq) : seq[n] = e})

\* C21: every brick has as parent the brick whose method constructed it (None
\* at top level) and is exactly once among the parts of that brick; the parts
\* of a brick are in construction order and have the brick as parent
C21_ParentsAndParts ==
  \A b \in 1..Len(heap) :
    /\ heap[b].parent = heap[b].site
    /\ heap[b].site # 0 => Occurrences(heap[heap[b].site].parts, b) = 1
    /\ \A n \in 1..Len(heap[b].parts) :
         /\ heap[heap[b].parts[n]].parent = b
         /\ \A o \in 1..Len(heap[b].parts) : n < o => heap[b].parts[n] < heap[b].parts[o]


----------------------------------------------------------------------------
\* Retrying a chain from the parent: documents
\*   [a: A]  y: R  m: { [a: A]  y: R  n: { [a: A]  y: R } }
\* where R is $a.b, $a[0] or $a[MaxIndex] and each scope binds a, or does not,
\* in one of the ways of RetryChoices.

RetryRefs == [key |-> RefAB, first |-> RefIdx("a", 0), last |-> RefIdx("a", MaxIndex)]

\* the sequence v, v + 10, ... of MaxIndex + 1 elements
LongSeq(v) == Seq_([n \in 1..(MaxIndex + 1) |-> IntV(v + 10 * (n - 1))])

\* what a scope binds a to; v tells the scopes apart
RetryChoices(v) ==
  [absent |-> Absent,
   whole |-> Map(<<KV("b", IntV(v))>>),
   partial |-> Map(<<KV("c", IntV(v))>>),
   short |-> Seq_(<<IntV(v)>>),
   long |-> LongSeq(v)]

RetryNames == {"absent", "whole", "partial", "short", "long"}

\* choice[d + 1] is the choice of the scope at depth d: the root, m, m.n
RetryDoc(choice, ref) ==
  Opt("a", RetryChoices(ScopeValue(0))[choice[1]])
  \o <<KV("y", RetryRefs[ref]),
       KV("m", Map(Opt("a", RetryChoices(ScopeValue(1))[choice[2]])
                   \o <<KV("y", RetryRefs[ref]),
                        KV("n", Map(Opt("a", RetryChoices(ScopeValue(2))[choice[3]])
                                    \o <<KV("y", RetryRefs[ref])>>))>>))>>

InitRetry ==
  \E choice \in [1..3 -> RetryNames], ref \in DOMAIN RetryRefs :
    \E r \in {Call("load", <<<<>>, RetryDoc(choice, ref)>>)} :
      /\ heap = r.h
      /\ roots = <<1>>
      /\ doc = <<choice, ref>>
      /\ last = Op("load", 1, <<>>, r)
      /\ calls = 0

NextRetry == \E path \in ScopeReadPaths : Read(roots[1], path)

SpecRetry == InitRetry /\ [][NextRetry]_vars

\* the whole chain of the document's reference resolves in the scope at depth e
ChainResolves(e) ==
  \/ doc[2] = "key" /\ doc[1][e + 1] = "whole"
  \/ doc[2] = "first" /\ doc[1][e + 1] \in {"short", "long"}
  \/ doc[2] = "last" /\ doc[1][e + 1] = "long"

\* the value of the chain in the scope at depth e
ChainValue(e) == IF doc[2] = "last" THEN ScopeValue(e) + 10 * MaxIndex ELSE ScopeValue(e)

\* the depths, from d outwards, of the scopes in which the whole chain resolves
Yielding(d) == {e \in 0..d : ChainResolves(e)}

\* C22: when the requesting container binds the first element of the
\* reference but a later step fails there, a read (with no resolution left
\* unfinished by an earlier read) returns the value of the chain in the nearest
\* ancestor in which the whole chain resolves, and raises
\* ConfigResolutionError only when there is none
C22_RetryFromParent ==
  [][(Marks(heap) = {} /\ last'.op = "read")
       => LET d == Len(last'.path) - 1 IN
          doc[1][d + 1] # "absent" /\ ~ChainResolves(d)
            => IF Yielding(d) # {}
               THEN last'.x = "" /\ last'.v = IntV(ChainValue(Max(Yielding(d))))
               ELSE last'.x = ConfigResolutionError]_vars


----------------------------------------------------------------------------
\* References inside sequences: documents
\*   [x: 0]  s: S  y: R  m: { [x: 1]  s: S  y: R  n: { [x: 2]  s: S  y: R } }
\* where R is a reference or an expression over one and S is R inside one or
\* more sequences: [R], [[R]], ...

\* how deep the sequences around R are nested at most
MaxNest == 2

Up1 == RefDot(UNDERSCORE, "x")

Up2 == addElement(RefDot(UNDERSCORE, UNDERSCORE), DOT, StrV("x"))

SeqRefs ==
  [name |-> Ref1("x"), up |-> Up1, upup |-> Up2, missing |-> Ref1("nope"),
   sum |-> Expression(PLUS, Ref1("x"), IntV(1)), upsum |-> Expression(PLUS, Up1, IntV(1))]

RECURSIVE Nested(_, _)

\* v inside n sequences
Nested(v, n) == IF n = 0 THEN v ELSE Seq_(<<Nested(v, n - 1)>>)

\* binds[d + 1] tells whether the scope at depth d binds x
SeqRefDoc(binds, ref, nest) ==
  LET S == Nested(SeqRefs[ref], nest)
      R == SeqRefs[ref]
      X(d) == IF binds[d + 1] THEN <<KV("x", IntV(d))>> ELSE <<>>
  IN X(0) \o <<KV("s", S), KV("y", R),
               KV("m", Map(X(1) \o <<KV("s", S), KV("y", R),
                                     KV("n", Map(X(2) \o <<KV("s", S), KV("y", R)>>))>>))>>

InitSeqRef ==
  \E binds \in [1..3 -> BOOLEAN], ref \in DOMAIN SeqRefs, nest \in 1..MaxNest :
    \E r \in {Call("load", <<<<>>, SeqRefDoc(binds, ref, nest)>>)} :
      /\ heap = r.h
      /\ roots = <<1>>
      /\ doc = <<SeqRefDoc(binds, ref, nest), nest>>
      /\ last = Op("load", 1, <<>>, r)
      /\ calls = 0

\* the Mappings of the document
SeqRefScopes == {<<>>, <<StrV("m")>>, <<StrV("m"), StrV("n")>>}

\* s[0], s[0][0], ... down to the reference
ElementPath == <<StrV("s")>> \o [n \in 1..doc[2] |-> IntV(0)]

\* the reads of the element of s and of y in each Mapping
NextSeqRef ==
  \/ \E scope \in SeqRefScopes : Read(roots[1], scope \o ElementPath)
  \/ \E scope \in SeqRefScopes : Read(roots[1], scope \o <<StrV("y")>>)

SpecSeqRef == InitSeqRef /\ [][NextSeqRef]_vars

\* C23: a read of the reference inside s (with no resolution left unfinished
\* by an earlier read) gives what a read of y, the same reference bound to a
\* key of the Mapping that holds s, gives: the same value or the same error
C23_SequenceTransparent ==
  [][\A scope \in SeqRefScopes :
       Marks(heap) = {} /\ last'.op = "read" /\ last'.path = scope \o ElementPath
         => /\ last'.x = FreshRead(scope \o <<StrV("y")>>).x
            /\ last'.v = FreshRead(scope \o <<StrV("y")>>).v]_vars


----------------------------------------------------------------------------
\* Lazy ranges: documents
\*   [n: N]  r: [B..$n]
\* read at r, changed at n and copied as a whole by instantiate.

\* the values n takes
MaxEnd == 3

\* how many times n is assigned
MaxAssign == 2

LazyDoc(b, n) ==
  (IF n = 0 THEN <<>> ELSE <<KV("n", IntV(n))>>) \o <<KV("r", Range(<<FloatV(b, 1)>>, <<Ref1("n")>>))>>

InitLazy ==
  \E b \in 0..1, n \in 0..MaxEnd :
    \E r \in {Call("load", <<<<>>, LazyDoc(b, n)>>)} :
      /\ heap = r.h
      /\ roots = <<1>>
      /\ doc = <<b>>
      /\ last = Op("load", 1, <<>>, r)
      /\ calls = 0

\* cfg.n = value
AssignEnd(value) ==
  \E r \in {setattr(heap, roots[1], StrV("n"), IntV(value))} :
    /\ calls < MaxAssign
    /\ calls' = calls + 1
    /\ heap' = r.h
    /\ last' = Op("set", roots[1], <<StrV("n")>>, r)
    /\ UNCHANGED <<roots, doc>>

\* copy = cfg.instantiate()
CopyConfig ==
  \E r \in {Call("instantiate", <<heap, roots[1], 0, NoKey>>)} :
    /\ Len(roots) = 1
    /\ heap' = r.h
    /\ roots' = IF r.x = "" THEN Append(roots, r.v.i) ELSE roots
    /\ last' = Op("instantiate", roots[1], <<>>, r)
    /\ UNCHANGED <<doc, calls>>

LazyReadPaths == {<<StrV("r"), IntV(0)>>, <<StrV("r"), StrV("length")>>}

NextLazy ==
  \/ \E value \in 1..MaxEnd : AssignEnd(value)
  \/ CopyConfig
  \/ \E n \in 1..Len(roots), path \in LazyReadPaths : Read(roots[n], path)

SpecLazy == InitLazy /\ [][NextLazy]_vars

\* the LazyRange r of the tree under root
RangeOf(h, root) == h[root].data["r"].i

\* begin, begin + 1, ..., end
Interval(begin, end) == [j \in 1..(IF end >= begin THEN end - begin + 1 ELSE 0) |-> IntV(begin + j - 1)]

\* C24: a LazyRange computes its contents in the first read of an element or
\* of its length, from the value its end bound has then, and not before: not
\* when the document is loaded, when the end bound's value is assigned, or when
\* the tree is copied; once computed, the contents never change; and the
\* LazyRange of a copy made by instantiate has no contents until it is read
C24_ComputedOnce ==
  [][/\ \A n \in 1..Len(roots) :
          LET r == RangeOf(heap, roots[n]) IN
          /\ heap[r].has
               => /\ heap'[r].has
                  /\ heap'[r].items = heap[r].items
                  /\ last'.op = "read" /\ last'.root = roots[n] /\ last'.path = <<StrV("r"), StrV("length")>>
                       => last'.x = "" /\ last'.v = IntV(Len(heap[r].items))
          /\ ~heap[r].has /\ heap'[r].has
               => /\ last'.op = "read" /\ last'.root = roots[n]
                  /\ heap'[r].items = Interval(doc[1], heap[roots[n]].data["n"].i)
          /\ ~heap[r].has /\ last'.op = "read" /\ last'.root = roots[n] /\ "n" \in DOMAIN heap[roots[n]].data
               => heap'[r].has
     /\ last'.op = "instantiate" /\ last'.x = ""
          => ~heap'[RangeOf(heap', last'.v.i)].has]_vars

\* the range of the document has been read, n has been assigned, and the copy
\* made after that has computed contents of its own that differ
C24_Witness ==
  /\ Len(roots) = 2
  /\ heap[RangeOf(heap, roots[1])].has
  /\ heap[RangeOf(heap, roots[2])].has
  /\ heap[RangeOf(heap, roots[1])].items # heap[RangeOf(heap, roots[2])].items
  /\ heap[roots[1]].data["n"] = heap[roots[2]].data["n"]


----------------------------------------------------------------------------
\* Parent links and paths (SpecMerge).

\* the Containers that the Mapping or Sequence id holds, each with its place
Held(h, id) ==
  {[id |-> h[id].data[k].i, suffix |-> Suffix(k)] :
     k \in {k \in DOMAIN h[id].data : h[id].data[k].t = "obj"}}
    \cup {[id |-> h[id].items[j].i, suffix |-> IndexSuffix(j - 1)] :
            j \in {j \in 1..Len(h[id].items) : h[id].items[j].t = "obj"}}

RECURSIVE Below(_, _)

\* the Containers reachable from id through data, id included
Below(h, id) == {id} \cup UNION {Below(h, c.id) : c \in Held(h, id)}

\* C25: every Container reachable from the root of the target or of the
\* source has as parent the Mapping or Sequence that holds it, and as path
\* its location from that root
C25_ParentsAndPaths ==
  \A n \in 1..Len(roots) :
    \A id \in Below(heap, roots[n]) :
      \A c \in Held(heap, id) :
        /\ heap[c.id].parent = id
        /\ heap[c.id].path = makePath(heap[id].path, c.suffix)


----------------------------------------------------------------------------
\* Arithmetic errors behind a reference: documents
\*   [a: A]  m: { z: Z  a: P op $z  y: $a  n: { y: $a } }
\* where the root binds a or does not, and the a of m is an expression that
\* may fail.

\* the values of z: a divisor that is zero, one that is not, an operand of
\* the wrong type
Divisors == {IntV(0), IntV(1), StrV("s")}

Operators == {SLASH, MOD, PLUS, MINUS}

\* the operations of the documents, P a numeral; % with a str operand is left out
Operations == {o \in [op : Operators, p : 0..MaxOperand, z : Divisors] :
                 ~(o.op = MOD /\ o.z.t = "str")}

\* what the root binds a to: nothing, a number
OuterChoices == {Absent, IntV(5), IntV(6)}

MaskDoc(outer, o) ==
  Opt("a", outer)
  \o <<KV("m", Map(<<KV("z", o.z), KV("a", Expression(o.op, IntV(o.p), Ref1("z"))),
                     KV("y", Ref1("a")),
                     KV("n", Map(<<KV("y", Ref1("a"))>>))>>))>>

InitMask ==
  \E outer \in OuterChoices, o \in Operations :
    \E r \in {Call("load", <<<<>>, MaskDoc(outer, o)>>)} :
      /\ heap = r.h
      /\ roots = <<1>>
      /\ doc = <<outer, o>>
      /\ last = Op("load", 1, <<>>, r)
      /\ calls = 0

\* the reads of a by its key and through the references in m and in m.n
MaskReadPaths ==
  {<<StrV("m"), StrV("a")>>, <<StrV("m"), StrV("y")>>, <<StrV("m"), StrV("n"), StrV("y")>>}

NextMask == \E path \in MaskReadPaths : Read(roots[1], path)

SpecMask == InitMask /\ [][NextMask]_vars

\* the expression bound to a in m fails: it divides or takes a modulo by
\* zero, or its operands do not fit
Fails(o) == (o.op \in {SLASH, MOD} /\ o.z = IntV(0)) \/ o.z.t = "str"

\* C26: when the a of m fails to evaluate, a read of $a from m or from m.n
\* raises an error; it does not return the a of the root
C26_ErrorNotMasked ==
  last.op = "read" /\ last.path \in {<<StrV("m"), StrV("y")>>, <<StrV("m"), StrV("n"), StrV("y")>>}
    /\ Fails(doc[2])
    => last.x # ""


----------------------------------------------------------------------------
\* Chains of references through one mapping: documents
\*   x: X  a: { p: P  q: Q  r: 30 }
\* where X names a key of a from the root and P and Q are scalars or
\* references to keys of a, written from the root ($a.q) or from a itself ($q)

ChainTargets == {"p", "q", "r"}

ChainValues(v) ==
  {IntV(v)} \cup {RefDot("a", k) : k \in ChainTargets} \cup {Ref1(k) : k \in ChainTargets}

ChainDoc(vx, vp, vq) ==
  <<KV("x", vx), KV("a", Map(<<KV("p", vp), KV("q", vq), KV("r", IntV(30))>>))>>

InitChain ==
  \E k \in ChainTargets, vp \in ChainValues(10), vq \in ChainValues(20) :
    \E r \in {Call("load", <<<<>>, ChainDoc(RefDot("a", k), vp, vq)>>)} :
      /\ heap = r.h
      /\ roots = <<r.v.i>>
      /\ doc = <<ChainDoc(RefDot("a", k), vp, vq)>>
      /\ last = Op("load", r.v.i, <<>>, r)
      /\ calls = 0

ChainReadPaths == {<<StrV("x")>>} \cup {<<StrV("a"), StrV(k)>> : k \in ChainTargets}

NextChain == \E path \in ChainReadPaths : Read(roots[1], path)

SpecChain == InitChain /\ [][NextChain]_vars

\* the locations that the evaluation of the value at `path` passes through
Chain(path) == Reach({path}, 2 * Len(doc[1]))

\* the chain never returns to a location it passed through
Acyclic(path) == \A p \in Chain(path) : ~OnCycle(p)

\* the scalar at the end of an acyclic chain
Final(path) == AstAt(CHOOSE p \in Chain(path) : LeadsTo(p) = {})

\* C27: a read (with no resolution left unfinished by an earlier read) of a
\* key whose chain of references is acyclic returns the scalar at the end of
\* the chain, also when the chain passes twice through the same first
\* identifier; it does not raise the circular-reference error
C27_OnlyRealCycles ==
  [][(Marks(heap) = {} /\ last'.op = "read" /\ Acyclic(last'.path))
       => last'.x = "" /\ last'.v = Final(last'.path)]_vars


----------------------------------------------------------------------------
\* Merging from several sources: a target and two sources are loaded; the
\* sources are merged into the target, in any order and under any resolver,
\* and values are assigned or appended in the Containers of the target.
\*   target:  [a: { x: 1 }  or  a: [1]]
\*   source:  a: [v]  or  a: { y: [v] }

\* how many merges and assignments one behaviour makes at most
MaxShare == 2

ShareTarget == {Absent, Map(<<KV("x", IntV(1))>>), Seq_(<<IntV(1)>>)}

ShareSource(v) == {Seq_(<<IntV(v)>>), Map(<<KV("y", Seq_(<<IntV(v)>>))>>)}

InitShare ==
  \E ta \in ShareTarget, sa \in ShareSource(3), sb \in ShareSource(4) :
    \E merged \in {Call("load", <<<<>>, Opt("a", ta)>>)} :
    \E first \in {Call("load", <<merged.h, <<KV("a", sa)>>>>)} :
    \E second \in {Call("load", <<first.h, <<KV("a", sb)>>>>)} :
      /\ heap = second.h
      /\ roots = <<merged.v.i, first.v.i, second.v.i>>
      /\ doc = <<Opt("a", ta), <<KV("a", sa)>>, <<KV("a", sb)>>>>
      /\ last = Op("load", second.v.i, <<>>, second)
      /\ calls = 0

\* ConfigMerger(resolver).merge(target, source) for one of the sources
MergeFrom(self, source) ==
  \E r \in {Call("merge", <<heap, self, roots[1], source>>)} :
    /\ calls < MaxShare
    /\ r.x # NoReturn
    /\ calls' = calls + 1
    /\ heap' = r.h
    /\ last' = [op |-> "merge", resolver |-> self, root |-> source, x |-> r.x, m |-> r.m,
                before |-> heap]
    /\ UNCHANGED <<roots, doc>>

\* container.<k> = 9 for a Mapping of the target, container.append(9) for a
\* Sequence of the target
AssignTarget ==
  \E id \in Nodes(heap, Obj(roots[1])), k \in {"y", "n"} :
    \E r \in {IF heap[id].kind \in MappingKinds THEN setattr(heap, id, StrV(k), IntV(9))
              ELSE Ret(append(heap, id, IntV(9), ""), NoneV)} :
      /\ calls < MaxShare
      /\ calls' = calls + 1
      /\ heap' = r.h
      /\ last' = [op |-> "assign", resolver |-> "", root |-> id, x |-> r.x, m |-> r.m,
                  before |-> heap]
      /\ UNCHANGED <<roots, doc>>

NextShare ==
  \/ \E self \in Resolvers, j \in 2..3 : MergeFrom(self, roots[j])
  \/ AssignTarget

SpecShare == InitShare /\ [][NextShare]_vars

\* C28: an assignment or append in a Container of the target, and a merge of
\* one source into the target, leave all that the sources store as it was,
\* whatever was merged into the target before
C28_NothingShared ==
  last.op \in {"merge", "assign"}
    => \A j \in 2..3 : Content(heap, Obj(roots[j])) = Content(last.before, Obj(roots[j]))


----------------------------------------------------------------------------
\* Binding outputs after construction: bricks of the classes of Program are
\* constructed at top level and the output result of any brick is bound to
\* the output result of any other.

\* how many calls of bind one behaviour makes at most
MaxBind == 1

\* a.result.bind(b.result); was is a.result.ref before the call
Bind(a, b) ==
  \E r \in {bind(heap, a, b)} :
    /\ calls < MaxBind
    /\ calls' = calls + 1
    /\ heap' = r.h
    /\ last' = [op |-> "bind", x |-> r.x, m |-> r.m, v |-> a, arg |-> b, was |-> heap[a].ref]
    /\ UNCHANGED <<roots, doc>>

NextBind ==
  \/ \E cls \in {"Part", "Base", "Derived", "Top"} : Construct(cls)
  \/ \E a \in 1..Len(heap), b \in 1..Len(heap) : Bind(a, b)

SpecBind == InitParts /\ [][NextBind]_vars

\* C29: bind called with the output of a brick that is not a part of this
\* output's brick raises BrickConfigError and leaves ref as it was; called with
\* the output of a part it sets ref, and dependencies() is then that part alone
C29_BindOnlyParts ==
  last.op = "bind"
    => IF heap[last.arg].parent # last.v
       THEN last.x = BrickConfigError /\ heap[last.v].ref = last.was
       ELSE last.x = "" /\ heap[last.v].ref = last.arg
            /\ dependencies(heap, last.v) = <<last.arg>>


----------------------------------------------------------------------------
\* Default configuration: bricks of the classes Part, Base, Derived(Base),
\* Leaf(Derived) and Top, defined in the module woeman.bricks.v1.m, each with a
\* class attribute attr (inherited in Derived and Leaf), are constructed and
\* configured from a configuration
\*   m: { <Class>: { attr: <n> }  ... }
\* that has an entry for some of the classes.

\* how many calls of _load_default_config one behaviour makes at most
MaxLoad == 1

LoadClasses == <<"Part", "Base", "Derived", "Leaf", "Top">>

\* the number that the entry of a class binds attr to
EntryValue(cls) == 10 + CHOOSE n \in 1..Len(LoadClasses) : LoadClasses[n] = cls

ConfigDoc(entries) ==
  LET named == SelectSeq(LoadClasses, LAMBDA c : c \in entries)
  IN <<KV("m", Map([n \in 1..Len(named) |->
                      KV(named[n], Map(<<KV("attr", IntV(EntryValue(named[n])))>>))]))>>

\* Top makes parts of the classes chosen; Derived and Leaf call the
\* constructor of their base
LoadProgram(top) ==
  [name \in {"Part", "Base", "Derived", "Leaf", "Top"} |->
     CASE name = "Part" -> BrickClass("Part", "", <<>>, <<>>)
       [] name = "Base" -> BrickClass("Base", "", <<>>, <<>>)
       [] name = "Derived" -> BrickClass("Derived", "Base", <<BaseInit>>, <<>>)
       [] name = "Leaf" -> BrickClass("Leaf", "Derived", <<BaseInit>>, <<>>)
       [] name = "Top" -> BrickClass("Top", "", top, <<>>)]

LoadInits ==
  {PartStatements(classes) :
     classes \in UNION {[1..n -> {"Part", "Derived", "Leaf"}] : n \in 0..MaxParts}}

InitLoad ==
  \E top \in LoadInits :
    /\ heap = <<>>
    /\ roots = <<>>
    /\ doc = LoadProgram(top)
    /\ last = [op |-> "define", x |-> "", m |-> "", v |-> 0]
    /\ calls = 0

\* cls._brick_fullname, split at the dots
brick_fullname(cls) == <<"woeman", "bricks", "v1", "m", cls>>

\* Config.getByPath: any failure of the evaluation is a ConfigError
getByPath(cfg, path) ==
  LET got == Call("ReadPath", <<cfg, Obj(1), [n \in 1..Len(path) |-> StrV(path[n])], 1>>)
  IN IF got.x = "" THEN got ELSE Raise(cfg, ConfigError, got.m)

\* self.__class__.__bases__[0].__bases__[0] for a brick of class cls, when it
\* has _brick_fullname: the decorated class that cls derives from, "" for None
BrickParent(prog, cls) == prog[cls].base

RECURSIVE Configure(_, _)

\* the loop of _load_default_config for a brick of class own, at the top of an
\* iteration with the local variable cls; tried are the values cls had at the
\* top of the iterations before.  The loop has no other state, so when cls has
\* a value it had before, the loop does not end
FindEntry(prog, cfg, own, cls, tried) ==
  IF cls \in tried THEN Raise(cfg, NoReturn, "")
  ELSE LET entryPath == SubSeq(brick_fullname(cls), 4, Len(brick_fullname(cls)))
           configEntry == getByPath(cfg, entryPath)
       IN IF configEntry.x = "" THEN configEntry
          ELSE IF BrickParent(prog, own) = "" THEN Raise(cfg, BrickConfigError, "Could not get config key")
          ELSE Configure("FindEntry", <<prog, cfg, own, BrickParent(prog, own), tried \cup {cls}>>)

\* Brick._load_default_config(configRoot); of the names in dir(self.__class__)
\* that do not begin with an underscore, attr is the one the entries bind
load_default_config(prog, cfg, h, self) ==
  LET configEntry == Configure("FindEntry", <<prog, cfg, h[self].cls, h[self].cls, {}>>)
  IN IF configEntry.x # "" THEN Raise(h, configEntry.x, configEntry.m)
     ELSE LET set == IF SeqContains(cfg[configEntry.v.i].order, "attr")
                     THEN [h EXCEPT ![self].attr = cfg[configEntry.v.i].data["attr"].i]
                     ELSE h
          IN Configure("load_parts", <<prog, cfg, set, self, 1>>)

\* for part in self._brick_parts, from the j-th on
load_parts(prog, cfg, h, self, j) ==
  IF j > Len(h[self].parts) THEN Ret(h, NoneV)
  ELSE LET done == Configure("load_default_config", <<prog, cfg, h, h[self].parts[j]>>)
       IN IF done.x # "" THEN done ELSE Configure("load_parts", <<prog, cfg, done.h, self, j + 1>>)

Configure(f, a) ==
  CASE f = "FindEntry" -> FindEntry(a[1], a[2], a[3], a[4], a[5])
    [] f = "load_default_config" -> load_default_config(a[1], a[2], a[3], a[4])
    [] f = "load_parts" -> load_parts(a[1], a[2], a[3], a[4], a[5])

\* b._load_default_config(Config(...)) for a brick constructed at top level; a
\* call that does not return ends the behaviour
LoadDefaultConfig(b, entries) ==
  /\ calls < MaxLoad
  /\ last.x # NoReturn
  /\ \E r \in {Configure("load_default_config", <<doc, Call("load", <<<<>>, ConfigDoc(entries)>>).h, heap, b>>)} :
    /\ calls' = calls + 1
    /\ heap' = r.h
    /\ last' = [op |-> "load_default_config", x |-> r.x, m |-> r.m, v |-> b, entries |-> entries]
    /\ UNCHANGED <<roots, doc>>

NextLoad ==
  \/ \E cls \in DOMAIN doc : last.x # NoReturn /\ Construct(cls)
  \/ \E n \in 1..Len(roots), entries \in SUBSET DOMAIN doc : LoadDefaultConfig(roots[n], entries)

SpecLoad == InitLoad /\ [][NextLoad]_vars

RECURSIVE Nearest(_, _, _), Parts(_, _)

\* the nearest of cls and its ancestor Brick classes that has an entry, "" when
\* none has
Nearest(prog, cls, entries) ==
  IF cls \in entries THEN cls
  ELSE IF prog[cls].base = "" THEN ""
  ELSE Nearest(prog, prog[cls].base, entries)

\* the brick and, recursively, all its parts
Parts(h, b) == {b} \cup UNION {Parts(h, h[b].parts[n]) : n \in 1..Len(h[b].parts)}

\* C30: _load_default_config returns or raises BrickConfigError: when the
\* class of the brick and of each of its parts, recursively, or an ancestor
\* Brick class of it has an entry, the call returns and has applied to each of
\* them the entry of the nearest such class; otherwise it raises
\* BrickConfigError
C30_LoadTerminates ==
  last.op = "load_default_config"
    => IF \A p \in Parts(heap, last.v) : Nearest(doc, heap[p].cls, last.entries) # ""
       THEN /\ last.x = ""
            /\ \A p \in Parts(heap, last.v) :
                 heap[p].attr = EntryValue(Nearest(doc, heap[p].cls, last.entries))
       ELSE last.x = BrickConfigError

====
